---- MODULE Spec2Model ----
(***************************************************************************)
(* Model of the libvirt exporter's scrape path: LibvirtExporter.Collect,   *)
(* CollectFromLibvirt, CollectDomain, CollectStoragePool and the helpers   *)
(* of pkg/utils.  One scrape is a sequential walk through the code; the    *)
(* variable pc is the position of that walk.  The virtualization host (the *)
(* answers of libvirt and the contents of the proc filesystem) is the      *)
(* variable host, chosen in Init and read-only afterwards.                 *)
(*                                                                         *)
(* Strings that the code searches (domain names, command lines) and the    *)
(* decimal labels it formats are sequences of one-character strings.       *)
(* float64 values are exact rationals [num, den] in lowest terms; the      *)
(* rounding of float64 is not modelled.                                    *)
(***************************************************************************)
EXTENDS Integers, Sequences, FiniteSets, TLC

\* ------------------------------------------------------------------ bounds
MaxDomains == 2
MaxVcpus == 2
MaxBlocks == 2
MaxPools == 2
MaxScrapes == 2
MaxCalls == 3
MaxScrapers == 2

\* --------------------------------------------------------------- constants
NsPerSec == 1000000000
KiB == 1024

\* ------------------------------------------------------------------ errors
\* A Go error value.  type "nil" is the nil error, "libvirt.Error" an error
\* whose dynamic type is libvirt.Error (it carries a Code), "error" any other
\* error (xml, fmt, ...).
NilErr == [type |-> "nil", Code |-> "ERR_OK"]
LibvirtError(code) == [type |-> "libvirt.Error", Code |-> code]
OtherError == [type |-> "error", Code |-> "ERR_OK"]

ErrInvalid == LibvirtError("ERR_OPERATION_INVALID")
ErrUnsupported == LibvirtError("ERR_OPERATION_UNSUPPORTED")
ErrInternal == LibvirtError("ERR_INTERNAL_ERROR")

\* lverr, ok := err.(libvirt.Error): a failed assertion yields the zero
\* libvirt.Error, whose Code is ERR_OK.
TypeAssert(err) ==
    IF err.type = "libvirt.Error"
    THEN [ok |-> TRUE, lverr |-> err]
    ELSE [ok |-> FALSE, lverr |-> LibvirtError("ERR_OK")]

\* ----------------------------------------------------------------- numbers
RECURSIVE GCD(_, _)
GCD(a, b) == IF b = 0 THEN a ELSE GCD(b, a % b)

Abs(n) == IF n < 0 THEN 0 - n ELSE n

\* The rational n/d (d > 0) in lowest terms.
Rat(n, d) ==
    LET g == GCD(Abs(n), d)
    IN  [num |-> n \div g, den |-> d \div g]

\* float64(x)
Float(x) == Rat(x, 1)

\* float64(x)/1e9 and float64(x)/1000/1000/1000: nanoseconds to seconds.
NsToSeconds(x) == Rat(x, NsPerSec)

\* float64(x)*1024: kibibytes to bytes.
KiBToBytes(x) == Rat(x * KiB, 1)

\* ----------------------------------------------------------------- strings
Digits == <<"0", "1", "2", "3", "4", "5", "6", "7", "8", "9">>

\* strconv.Itoa / strconv.FormatInt(n, 10) for n >= 0.
RECURSIVE FormatInt(_)
FormatInt(n) ==
    IF n < 10 THEN <<Digits[n + 1]>>
    ELSE FormatInt(n \div 10) \o <<Digits[(n % 10) + 1]>>

\* strings.Contains(s, sub)
Contains(s, sub) ==
    \E i \in 0..(Len(s) - Len(sub)) :
        \A j \in 1..Len(sub) : s[i + j] = sub[j]

\* ------------------------------------------------------------------ metric
\* prometheus.MustNewConstMetric(desc, valueType, value, labelValues...)
Metric(desc, value, labels) ==
    [desc |-> desc, value |-> value, labels |-> labels]

\* -------------------------------------------------------------------- host
\* The identities the hosts below are built from: domain d is named vm<d>,
\* runs as process 100*d and its VCPU i is thread 100*d + 50 + i.
DomainName(d) == <<"v", "m">> \o FormatInt(d)
PidOf(d) == 100 * d
TidOf(d, i) == PidOf(d) + 50 + i
RunqueueOf(tid) == ((tid % 100) - 48) * 250000000 + (tid \div 100)
QemuCmdLine(d) == <<"q", "e", "m", "u", " ">> \o DomainName(d)
InitCmdLine == <<"i", "n", "i", "t">>

\* Field names of libvirt.DomainStatsBlock, libvirt.DomainBlockIoTuneParameters
\* and libvirt.DomainStatsNet in the order CollectDomain tests their Set flags.
BlockCounterFields ==
    <<"RdBytes", "RdReqs", "RdTimes", "WrBytes", "WrReqs", "WrTimes",
      "FlReqs", "FlTimes", "Allocation", "Capacity", "Physical">>
BlockIoTuneFields ==
    <<"TotalBytesSec", "ReadBytesSec", "WriteBytesSec",
      "TotalIopsSec", "ReadIopsSec", "WriteIopsSec",
      "TotalBytesSecMax", "ReadBytesSecMax", "WriteBytesSecMax",
      "TotalIopsSecMax", "ReadIopsSecMax", "WriteIopsSecMax",
      "TotalBytesSecMaxLength", "ReadBytesSecMaxLength",
      "WriteBytesSecMaxLength", "TotalIopsSecMaxLength",
      "ReadIopsSecMaxLength", "WriteIopsSecMaxLength", "SizeIopsSec">>
NetCounterFields ==
    <<"RxBytes", "RxPkts", "RxErrs", "RxDrop",
      "TxBytes", "TxPkts", "TxErrs", "TxDrop">>

Range(s) == {s[i] : i \in DOMAIN s}

\* A record of presence flags and values: the function maps exactly the
\* fields whose <Field>Set flag is true to their values.
Present(fields, v) == [f \in fields |-> v]

\* libvirt.DomainStatsVcpu of VCPU number i (0-based).
VcpuStat(i, waitSet, delaySet) ==
    [WaitSet |-> waitSet, Wait |-> (i + 1) * 300000000,
     DelaySet |-> delaySet, Delay |-> (i + 1) * 400000000]

\* libvirt.DomainVcpuInfo of VCPU number i.
VcpuInfo(i) == [Number |-> i, State |-> 1, CpuTime |-> (i + 1) * 500000000, Cpu |-> i + 2]

\* libvirtSchema.Disk of the descriptor.
DescDisk(target) ==
    [Target |-> target, SourceName |-> "pool/" \o target, Serial |-> "s-" \o target,
     Bus |-> "virtio", DiskType |-> "network", DriverType |-> "raw",
     Cache |-> "none", Discard |-> "unmap"]

\* libvirtSchema.Interface of the descriptor.
DescInterface(target, bridge, ifaceId) ==
    [Target |-> target, Bridge |-> bridge, InterfaceID |-> ifaceId]

\* libvirt.DomainStatsBlock plus the answer of GetBlockIoTune for the device.
BlockStat(name, pathSet, tuneErr) ==
    [Name |-> name, PathSet |-> pathSet, Path |-> "/dev/" \o name,
     stats |-> Present({"RdBytes", "WrTimes", "Capacity"}, 4096),
     tuneErr |-> tuneErr,
     tune |-> Present({"TotalBytesSec", "SizeIopsSec"}, 1000)]

NetStat(name) ==
    [Name |-> name, stats |-> Present({"RxBytes", "TxDrop"}, 7)]

\* libvirt.DomainMemoryStat list: tag 5 available, 8 usable, 7 rss.
MemoryStatList == <<[Tag |-> 5, Val |-> 2000], [Tag |-> 8, Val |-> 500], [Tag |-> 7, Val |-> 900]>>

NovaMetadata == <<"inst", "m1.small", "user", "u-1", "proj", "p-1", "image", "r-1">>

NumBaseVcpus == IF MaxVcpus < 1 THEN 0 ELSE 1

\* A healthy domain: every call succeeds, the hypervisor reports the delay.
BaseDomain(d) ==
    [name |-> DomainName(d), nameErr |-> NilErr,
     monitorErr |-> NilErr,
     tids |-> [i \in 1..NumBaseVcpus |-> TidOf(d, i - 1)],
     uuid |-> <<"u", "u", "i", "d">> \o FormatInt(d), uuidErr |-> NilErr,
     xmlErr |-> NilErr, xmlMalformed |-> FALSE,
     desc |-> [Disks |-> <<DescDisk("vda")>>,
               Interfaces |-> <<DescInterface("tap0", "br0", "")>>,
               Nova |-> NovaMetadata],
     infoErr |-> NilErr,
     info |-> [State |-> 1, MaxMem |-> 4096, Memory |-> 2048, NrVirtCpu |-> NumBaseVcpus,
               CpuTime |-> 1500000000],
     vcpusErr |-> NilErr,
     vcpuInfo |-> [i \in 1..NumBaseVcpus |-> VcpuInfo(i - 1)],
     Vcpu |-> [i \in 1..NumBaseVcpus |-> VcpuStat(i - 1, TRUE, TRUE)],
     Block |-> IF MaxBlocks < 1 THEN <<>> ELSE <<BlockStat("vda", TRUE, NilErr)>>,
     Net |-> <<NetStat("tap0")>>,
     memErr |-> NilErr,
     mem |-> MemoryStatList]

\* A healthy active pool.
BasePool(k) ==
    [name |-> <<"p", "o", "o", "l">> \o FormatInt(k), refreshErr |-> NilErr, nameErr |-> NilErr,
     infoErr |-> NilErr, Capacity |-> 100 * k, Allocation |-> 40 * k, Available |-> 60 * k]

\* The schedstat file of every VCPU thread of every domain: three unsigned
\* integers (cputime, run-queue wait, timeslices).
BaseSchedStat(n) ==
    [p \in {<<PidOf(d), TidOf(d, i)>> : d \in 1..n, i \in 0..(MaxVcpus - 1)} |->
        <<1000, RunqueueOf(p[2]), 7>>]

\* A healthy host with the batch ds and the active pools ps.
MkHost(ds, ps) ==
    [connectErr |-> NilErr,
     versionErr |-> NilErr, libVersionErr |-> NilErr, libraryVersionErr |-> NilErr,
     hypervisorVersionNum |-> 6002000, libvirtdVersionNum |-> 7002000,
     libraryVersionNum |-> 10000001,
     procReadable |-> TRUE,
     processes |-> <<1>> \o [d \in 1..Len(ds) |-> PidOf(d)],
     cmdline |-> [p \in {1} \cup {PidOf(d) : d \in 1..Len(ds)} |->
                     IF p = 1 THEN InitCmdLine ELSE QemuCmdLine(p \div 100)],
     schedstat |-> BaseSchedStat(Len(ds)),
     statsErr |-> NilErr,
     domains |-> ds,
     poolsErr |-> NilErr,
     pools |-> ps]

\* -------------------------------------------------------------- pkg/utils
\* utils.GetCmdLine: the read error is dropped, an unreadable file is "".
GetCmdLine(h, pid) ==
    IF pid \in DOMAIN h.cmdline THEN h.cmdline[pid] ELSE <<>>

\* utils.GetProcPIDSchedStat(<procfs>/<domainPid>/task, pid): the read error is
\* dropped, so a missing file is scanned as empty input; fmt.Fscan fails
\* unless the content starts with three unsigned integers (a token that is
\* not one is modelled as a negative number).
GetProcPIDSchedStat(h, domainPid, pid) ==
    LET path == <<domainPid, pid>>
        filecontent == IF path \in DOMAIN h.schedstat THEN h.schedstat[path] ELSE <<>>
        scanned == Len(filecontent) >= 3 /\ \A k \in 1..3 : filecontent[k] >= 0
    IN  IF scanned
        THEN [err |-> NilErr, PID |-> pid, Cputime |-> filecontent[1],
              Runqueue |-> filecontent[2], Timeslices |-> filecontent[3]]
        ELSE [err |-> OtherError, PID |-> pid, Cputime |-> 0,
              Runqueue |-> 0, Timeslices |-> 0]

\* ------------------------------------------------------- libvirt_exporter
\* A log event written through level.Error(logger).Log.
LogEvent(text, cause) == [level |-> "error", err |-> text, msg |-> cause]

\* Mutant: WriteErrorOnce without the insertion into errorsMap.
WriteErrorOnceNotRecorded(emap, text, name) ==
    IF name \notin emap
    THEN [logs |-> <<LogEvent(text, NilErr)>>, errorsMap |-> emap]
    ELSE [logs |-> <<>>, errorsMap |-> emap]

\* WriteErrorOnce(err, name, logger) on the process-wide errorsMap.
WriteErrorOnce(emap, text, name) ==
    IF name \notin emap
    THEN [logs |-> <<LogEvent(text, NilErr)>>, errorsMap |-> emap \cup {name}]
    ELSE [logs |-> <<>>, errorsMap |-> emap]

\* GetDomainPid: the first listed process whose command line is non-empty
\* and contains the domain name; 0 when none does.
RECURSIVE GetDomainPidFrom(_, _, _, _)
GetDomainPidFrom(h, procs, domainName, i) ==
    IF i > Len(procs) THEN 0
    ELSE LET cmdline == GetCmdLine(h, procs[i])
         IN  IF cmdline # <<>> /\ Contains(cmdline, domainName)
             THEN procs[i]
             ELSE GetDomainPidFrom(h, procs, domainName, i + 1)

\* Mutant: A scan that does not stop at the first match: the last listed
\* process that matches wins.
GetDomainPidLastMatch(h, procs, domainName) ==
    LET M == {i \in DOMAIN procs :
                 GetCmdLine(h, procs[i]) # <<>> /\ Contains(GetCmdLine(h, procs[i]), domainName)}
    IN  IF M = {} THEN 0 ELSE procs[CHOOSE i \in M : \A m \in M : m <= i]

GetDomainPid(h, procs, domainName) == GetDomainPidFrom(h, procs, domainName, 1)

\* GetDomainVcpuPids: the thread ids found in the monitor's answer, or the
\* monitor's error with no thread id.
GetDomainVcpuPids(stat) ==
    IF stat.monitorErr # NilErr
    THEN [vCPUPids |-> <<>>, err |-> stat.monitorErr]
    ELSE [vCPUPids |-> stat.tids, err |-> NilErr]

\* Mutant: A test that returns every error to the caller.
IsFatalAlways(err) == err # NilErr

\* The test CollectDomain applies to the errors of GetDomainVcpuPids and
\* GetVcpus: true when the error is returned to the caller.
IsFatal(err) ==
    LET ta == TypeAssert(err)
    IN  err # NilErr /\ (~ta.ok \/ ta.lverr.Code # "ERR_OPERATION_INVALID")

NoLocals ==
    [domainName |-> <<>>, domainPid |-> 0, domainVcpuPids |-> <<>>,
     domainUUID |-> <<>>, desc |-> [Disks |-> <<>>, Interfaces |-> <<>>, Nova |-> <<>>]]

\* The six records CollectDomain emits once name, uuid, descriptor and info
\* are known.
DomainInfoMetrics(domainName, domainUUID, desc, info) ==
    << Metric("libvirtDomainInfoMetaDesc", Float(1),
              <<domainName, domainUUID>> \o desc.Nova),
       Metric("libvirtDomainInfoMaxMemBytesDesc", KiBToBytes(info.MaxMem), <<domainName>>),
       Metric("libvirtDomainInfoMemoryUsageBytesDesc", KiBToBytes(info.Memory), <<domainName>>),
       Metric("libvirtDomainInfoNrVirtCPUDesc", Float(info.NrVirtCpu), <<domainName>>),
       Metric("libvirtDomainInfoCPUTimeDesc", NsToSeconds(info.CpuTime), <<domainName>>),
       Metric("libvirtDomainInfoVirDomainState", Float(info.State), <<domainName>>) >>

\* The hypervisor calls CollectDomain makes before the domain info records.
DomainInfoCalls ==
    <<"GetName", "QemuMonitorCommand", "GetUUIDString", "GetXMLDesc", "GetInfo">>

\* Mutant: A mapper that sends the six info records before it tests the
\* error of GetInfo.
CollectDomainInfoBeforeInfoTest(h, procs, stat) ==
    LET domainName == stat.name
        domainPid == GetDomainPid(h, procs, domainName)
        vp == GetDomainVcpuPids(stat)
        Fail(e, n) == [err |-> e, recs |-> <<>>, loc |-> NoLocals,
                       calls |-> SubSeq(DomainInfoCalls, 1, n)]
    IN  IF stat.nameErr # NilErr THEN Fail(stat.nameErr, 1)
        ELSE IF IsFatal(vp.err) THEN Fail(vp.err, 2)
        ELSE IF stat.uuidErr # NilErr THEN Fail(stat.uuidErr, 3)
        ELSE IF stat.xmlErr # NilErr THEN Fail(stat.xmlErr, 4)
        ELSE IF stat.xmlMalformed THEN Fail(OtherError, 4)
        ELSE [err |-> stat.infoErr, calls |-> DomainInfoCalls,
              recs |-> DomainInfoMetrics(domainName, stat.uuid, stat.desc, stat.info),
              loc |-> [domainName |-> domainName, domainPid |-> domainPid,
                       domainVcpuPids |-> vp.vCPUPids, domainUUID |-> stat.uuid,
                       desc |-> stat.desc]]

\* CollectDomain up to the domain info records.
CollectDomainInfo(h, procs, stat) ==
    LET domainName == stat.name
        domainPid == GetDomainPid(h, procs, domainName)
        vp == GetDomainVcpuPids(stat)
        Fail(e, n) == [err |-> e, recs |-> <<>>, loc |-> NoLocals,
                       calls |-> SubSeq(DomainInfoCalls, 1, n)]
    IN  IF stat.nameErr # NilErr THEN Fail(stat.nameErr, 1)
        ELSE IF IsFatal(vp.err) THEN Fail(vp.err, 2)
        ELSE IF stat.uuidErr # NilErr THEN Fail(stat.uuidErr, 3)
        ELSE IF stat.xmlErr # NilErr THEN Fail(stat.xmlErr, 4)
        ELSE IF stat.xmlMalformed THEN Fail(OtherError, 4)
        ELSE IF stat.infoErr # NilErr THEN Fail(stat.infoErr, 5)
        ELSE [err |-> NilErr, calls |-> DomainInfoCalls,
              recs |-> DomainInfoMetrics(domainName, stat.uuid, stat.desc, stat.info),
              loc |-> [domainName |-> domainName, domainPid |-> domainPid,
                       domainVcpuPids |-> vp.vCPUPids, domainUUID |-> stat.uuid,
                       desc |-> stat.desc]]

\* The three records of one entry of GetVcpus.
VcpuInfoMetrics(domainName, vcpu) ==
    LET n == FormatInt(vcpu.Number)
    IN  << Metric("libvirtDomainVcpuStateDesc", Float(vcpu.State), <<domainName, n>>),
           Metric("libvirtDomainVcpuTimeDesc", NsToSeconds(vcpu.CpuTime), <<domainName, n>>),
           Metric("libvirtDomainVcpuCPUDesc", Float(vcpu.Cpu), <<domainName, n>>) >>

RECURSIVE VcpuInfoLoop(_, _, _)
VcpuInfoLoop(domainName, infos, i) ==
    IF i > Len(infos) THEN <<>>
    ELSE VcpuInfoMetrics(domainName, infos[i]) \o VcpuInfoLoop(domainName, infos, i + 1)

\* The wait-time record of one VCPU of the batch stats.
VcpuWaitMetrics(domainName, cpuNum, vcpu) ==
    IF vcpu.WaitSet
    THEN <<Metric("libvirtDomainVcpuWaitDesc", NsToSeconds(vcpu.Wait),
                  <<domainName, FormatInt(cpuNum)>>)>>
    ELSE <<>>

\* Mutant: The hypervisor delay record built from the wait time.
HypervisorDelayMetricFromWait(domainName, cpuNum, vcpu) ==
    Metric("libvirtDomainVcpuDelayDesc", NsToSeconds(vcpu.Wait),
           <<domainName, FormatInt(cpuNum)>>)

\* The delay record built from the hypervisor's value.
HypervisorDelayMetric(domainName, cpuNum, vcpu) ==
    Metric("libvirtDomainVcpuDelayDesc", NsToSeconds(vcpu.Delay),
           <<domainName, FormatInt(cpuNum)>>)

\* Mutant: The estimated delay record built from the thread's cpu time.
EstimatedDelayMetricFromCputime(domainName, cpuNum, procFSSchedStat) ==
    Metric("libvirtDomainVcpuDelayDesc", NsToSeconds(procFSSchedStat.Cputime),
           <<domainName, FormatInt(cpuNum)>>)

\* The delay record built from the thread's scheduler statistics.
EstimatedDelayMetric(domainName, cpuNum, procFSSchedStat) ==
    Metric("libvirtDomainVcpuDelayDesc", NsToSeconds(procFSSchedStat.Runqueue),
           <<domainName, FormatInt(cpuNum)>>)

\* The branch taken for a VCPU without hypervisor delay: skip when the VCPU
\* has no resolved thread.
HasThread(domainVcpuPids, cpuNum) == ~(Len(domainVcpuPids) <= cpuNum)

\* Mutant: An iteration that does not stop after the hypervisor's delay and
\* goes on to the scheduler statistics.
VcpuStatIterBothSources(h, loc, cpuNum, vcpu) ==
    LET wait == VcpuWaitMetrics(loc.domainName, cpuNum, vcpu)
        hyp == IF vcpu.DelaySet
               THEN <<HypervisorDelayMetric(loc.domainName, cpuNum, vcpu)>> ELSE <<>>
    IN  IF ~HasThread(loc.domainVcpuPids, cpuNum)
        THEN [recs |-> wait \o hyp, logs |-> <<>>, reads |-> <<>>]
        ELSE LET vcpuPid == loc.domainVcpuPids[cpuNum + 1]
                 ss == GetProcPIDSchedStat(h, loc.domainPid, vcpuPid)
                 read == [domain |-> loc.domainName, cpuNum |-> cpuNum,
                          pid |-> loc.domainPid, tid |-> vcpuPid]
             IN  IF ss.err # NilErr
                 THEN [recs |-> wait \o hyp,
                       logs |-> <<LogEvent("unable to collect vcpu delay metric", ss.err)>>,
                       reads |-> <<read>>]
                 ELSE [recs |-> wait \o hyp
                                \o <<EstimatedDelayMetric(loc.domainName, cpuNum, ss)>>,
                       logs |-> <<>>, reads |-> <<read>>]

\* One iteration of the loop over stat.Vcpu (cpuNum is 0-based): the records,
\* the log events and the scheduler-stat reads it makes.
VcpuStatIter(h, loc, cpuNum, vcpu) ==
    LET wait == VcpuWaitMetrics(loc.domainName, cpuNum, vcpu)
    IN  IF vcpu.DelaySet
        THEN [recs |-> wait \o <<HypervisorDelayMetric(loc.domainName, cpuNum, vcpu)>>,
              logs |-> <<>>, reads |-> <<>>]
        ELSE IF ~HasThread(loc.domainVcpuPids, cpuNum)
        THEN [recs |-> wait, logs |-> <<>>, reads |-> <<>>]
        ELSE LET vcpuPid == loc.domainVcpuPids[cpuNum + 1]
                 ss == GetProcPIDSchedStat(h, loc.domainPid, vcpuPid)
                 read == [domain |-> loc.domainName, cpuNum |-> cpuNum,
                          pid |-> loc.domainPid, tid |-> vcpuPid]
             IN  IF ss.err # NilErr
                 THEN [recs |-> wait,
                       logs |-> <<LogEvent("unable to collect vcpu delay metric", ss.err)>>,
                       reads |-> <<read>>]
                 ELSE [recs |-> wait \o <<EstimatedDelayMetric(loc.domainName, cpuNum, ss)>>,
                       logs |-> <<>>, reads |-> <<read>>]

\* Mutant: A loop over stat.Vcpu that ends at the first failed read of the
\* scheduler statistics.
RECURSIVE VcpuStatLoopStopsOnError(_, _, _, _)
VcpuStatLoopStopsOnError(h, loc, vcpus, i) ==
    IF i > Len(vcpus) THEN [recs |-> <<>>, logs |-> <<>>, reads |-> <<>>]
    ELSE LET this == VcpuStatIter(h, loc, i - 1, vcpus[i])
             rest == IF this.logs # <<>>
                     THEN [recs |-> <<>>, logs |-> <<>>, reads |-> <<>>]
                     ELSE VcpuStatLoopStopsOnError(h, loc, vcpus, i + 1)
         IN  [recs |-> this.recs \o rest.recs, logs |-> this.logs \o rest.logs,
              reads |-> this.reads \o rest.reads]

RECURSIVE VcpuStatLoop(_, _, _, _)
VcpuStatLoop(h, loc, vcpus, i) ==
    IF i > Len(vcpus) THEN [recs |-> <<>>, logs |-> <<>>, reads |-> <<>>]
    ELSE LET this == VcpuStatIter(h, loc, i - 1, vcpus[i])
             rest == VcpuStatLoop(h, loc, vcpus, i + 1)
         IN  [recs |-> this.recs \o rest.recs, logs |-> this.logs \o rest.logs,
              reads |-> this.reads \o rest.reads]

\* Whether the loop over stat.Vcpu runs: it sits in the else branch of the
\* GetVcpus error test.
RunsVcpuStatLoop(vcpusErr) == vcpusErr = NilErr

\* CollectDomain from GetVcpus to the end of the VCPU records.
CollectDomainVcpu(h, loc, stat) ==
    IF IsFatal(stat.vcpusErr)
    THEN [err |-> stat.vcpusErr, recs |-> <<>>, logs |-> <<>>, reads |-> <<>>]
    ELSE IF ~RunsVcpuStatLoop(stat.vcpusErr)
    THEN [err |-> NilErr, recs |-> <<>>, logs |-> <<>>, reads |-> <<>>]
    ELSE LET l == VcpuStatLoop(h, loc, stat.Vcpu, 1)
         IN  [err |-> NilErr,
              recs |-> VcpuInfoLoop(loc.domainName, stat.vcpuInfo, 1) \o l.recs,
              logs |-> l.logs, reads |-> l.reads]

\* Descriptor of each block counter field, and the fields that are times in
\* nanoseconds (emitted divided by 1e9).
BlockCounterDesc ==
    [RdBytes |-> "libvirtDomainBlockRdBytesDesc",
     RdReqs |-> "libvirtDomainBlockRdReqDesc",
     RdTimes |-> "libvirtDomainBlockRdTotalTimeSecondsDesc",
     WrBytes |-> "libvirtDomainBlockWrBytesDesc",
     WrReqs |-> "libvirtDomainBlockWrReqDesc",
     WrTimes |-> "libvirtDomainBlockWrTotalTimesDesc",
     FlReqs |-> "libvirtDomainBlockFlushReqDesc",
     FlTimes |-> "libvirtDomainBlockFlushTotalTimeSecondsDesc",
     Allocation |-> "libvirtDomainBlockAllocationDesc",
     Capacity |-> "libvirtDomainBlockCapacityBytesDesc",
     Physical |-> "libvirtDomainBlockPhysicalSizeBytesDesc"]
BlockTimeFields == {"RdTimes", "WrTimes", "FlTimes"}

BlockIoTuneDesc(f) == "libvirtDomainBlock" \o f \o "Desc"

NetCounterDesc ==
    [RxBytes |-> "libvirtDomainInterfaceRxBytesDesc",
     RxPkts |-> "libvirtDomainInterfaceRxPacketsDesc",
     RxErrs |-> "libvirtDomainInterfaceRxErrsDesc",
     RxDrop |-> "libvirtDomainInterfaceRxDropDesc",
     TxBytes |-> "libvirtDomainInterfaceTxBytesDesc",
     TxPkts |-> "libvirtDomainInterfaceTxPacketsDesc",
     TxErrs |-> "libvirtDomainInterfaceTxErrsDesc",
     TxDrop |-> "libvirtDomainInterfaceTxDropDesc"]

\* Mutant: A chain of counter records all guarded by the flag of the first
\* field.
RECURSIVE BlockCounterMetricsFirstFlag(_, _, _)
BlockCounterMetricsFirstFlag(domainName, disk, k) ==
    IF k > Len(BlockCounterFields) THEN <<>>
    ELSE LET f == BlockCounterFields[k]
             x == IF f \in DOMAIN disk.stats THEN disk.stats[f] ELSE 0
             v == IF f \in BlockTimeFields THEN NsToSeconds(x) ELSE Float(x)
         IN  (IF BlockCounterFields[1] \in DOMAIN disk.stats
              THEN <<Metric(BlockCounterDesc[f], v, <<domainName, disk.Name>>)>>
              ELSE <<>>)
             \o BlockCounterMetricsFirstFlag(domainName, disk, k + 1)

\* The chain of "if disk.<Field>Set" statements: one record per present
\* field, in source order.
RECURSIVE BlockCounterMetrics(_, _, _)
BlockCounterMetrics(domainName, disk, k) ==
    IF k > Len(BlockCounterFields) THEN <<>>
    ELSE LET f == BlockCounterFields[k]
             v == IF f \in BlockTimeFields THEN NsToSeconds(disk.stats[f])
                  ELSE Float(disk.stats[f])
         IN  (IF f \in DOMAIN disk.stats
              THEN <<Metric(BlockCounterDesc[f], v, <<domainName, disk.Name>>)>>
              ELSE <<>>)
             \o BlockCounterMetrics(domainName, disk, k + 1)

\* The chain of "if blockIOTuneParams.<Field>Set" statements.
RECURSIVE BlockIoTuneMetrics(_, _, _)
BlockIoTuneMetrics(domainName, disk, k) ==
    IF k > Len(BlockIoTuneFields) THEN <<>>
    ELSE LET f == BlockIoTuneFields[k]
         IN  (IF f \in DOMAIN disk.tune
              THEN <<Metric(BlockIoTuneDesc(f), Float(disk.tune[f]), <<domainName, disk.Name>>)>>
              ELSE <<>>)
             \o BlockIoTuneMetrics(domainName, disk, k + 1)

\* Mutant: A skip test that knows only hdc.
IsSkippedDiskOnlyHdc(name) == name = "hdc"

\* The block devices CollectDomain skips.
IsSkippedDisk(name) == name = "hdc" \/ name = "hda"

\* The scan of desc.Devices.Disks: index of the first disk whose target is
\* the device name, 0 when there is none (Device stays nil).
RECURSIVE FindDisk(_, _, _)
FindDisk(disks, name, i) ==
    IF i > Len(disks) THEN 0
    ELSE IF disks[i].Target = name THEN i
    ELSE FindDisk(disks, name, i + 1)

\* The block metadata record; Device is a found descriptor disk.
BlockMetaMetric(domainName, disk, DiskSource, Device) ==
    Metric("libvirtDomainMetaBlockDesc", Float(1),
           <<domainName, disk.Name, DiskSource, Device.Serial, Device.Bus,
             Device.DiskType, Device.DriverType, Device.Cache, Device.Discard>>)

\* The handling of a GetBlockIoTune error: the switch on the libvirt code is
\* entered only when the type assertion fails, i.e. with the zero
\* libvirt.Error; an error that is a libvirt.Error falls through untouched.
BlockIoTuneError(err, emap) ==
    LET ta == TypeAssert(err)
        Quiet == [err |-> NilErr, logs |-> <<>>, errorsMap |-> emap]
    IN  IF ~ta.ok
        THEN CASE ta.lverr.Code = "ERR_OPERATION_INVALID" ->
                    [err |-> NilErr,
                     logs |-> <<LogEvent("invalid operation GetBlockIoTune", err)>>,
                     errorsMap |-> emap]
               [] ta.lverr.Code = "ERR_OPERATION_UNSUPPORTED" ->
                    LET w == WriteErrorOnce(emap, "Unsupported operation GetBlockIoTune",
                                            "blkiotune_unsupported")
                    IN  [err |-> NilErr, logs |-> w.logs, errorsMap |-> w.errorsMap]
               [] OTHER -> [err |-> err, logs |-> <<>>, errorsMap |-> emap]
        ELSE Quiet

\* One iteration of the loop over stat.Block.  panic: the nil Device is
\* dereferenced when the metadata record is built.
CollectDomainBlock(loc, disk, emap) ==
    LET idx == FindDisk(loc.desc.Disks, disk.Name, 1)
        Device == loc.desc.Disks[idx]
        DiskSource == IF idx = 0 THEN ""
                      ELSE IF disk.PathSet THEN disk.Path ELSE Device.SourceName
        Result(panic, err, recs, logs, m) ==
            [panic |-> panic, err |-> err, recs |-> recs, logs |-> logs, errorsMap |-> m]
    IN  IF IsSkippedDisk(disk.Name) THEN Result(FALSE, NilErr, <<>>, <<>>, emap)
        ELSE IF idx = 0 THEN Result(TRUE, NilErr, <<>>, <<>>, emap)
        ELSE LET counters == <<BlockMetaMetric(loc.domainName, disk, DiskSource, Device)>>
                             \o BlockCounterMetrics(loc.domainName, disk, 1)
             IN  IF disk.tuneErr # NilErr
                 THEN LET e == BlockIoTuneError(disk.tuneErr, emap)
                      IN  Result(FALSE, e.err, counters, e.logs, e.errorsMap)
                 ELSE Result(FALSE, NilErr,
                             counters \o BlockIoTuneMetrics(loc.domainName, disk, 1),
                             <<>>, emap)

\* The scan of desc.Devices.Interfaces.
RECURSIVE FindInterface(_, _, _)
FindInterface(ifaces, name, i) ==
    IF i > Len(ifaces) THEN 0
    ELSE IF ifaces[i].Target = name THEN i
    ELSE FindInterface(ifaces, name, i + 1)

RECURSIVE NetCounterMetrics(_, _, _)
NetCounterMetrics(domainName, iface, k) ==
    IF k > Len(NetCounterFields) THEN <<>>
    ELSE LET f == NetCounterFields[k]
         IN  (IF f \in DOMAIN iface.stats
              THEN <<Metric(NetCounterDesc[f], Float(iface.stats[f]), <<domainName, iface.Name>>)>>
              ELSE <<>>)
             \o NetCounterMetrics(domainName, iface, k + 1)

\* Mutant: An iteration that emits the metadata record only when both the
\* bridge and the virtual interface are known.
NetIterBothNeeded(loc, iface) ==
    LET idx == FindInterface(loc.desc.Interfaces, iface.Name, 1)
        SourceBridge == IF idx = 0 THEN "" ELSE loc.desc.Interfaces[idx].Bridge
        VirtualInterface == IF idx = 0 THEN "" ELSE loc.desc.Interfaces[idx].InterfaceID
    IN  (IF SourceBridge # "" /\ VirtualInterface # ""
         THEN <<Metric("libvirtDomainMetaInterfacesDesc", Float(1),
                       <<loc.domainName, SourceBridge, iface.Name, VirtualInterface>>)>>
         ELSE <<>>)
        \o NetCounterMetrics(loc.domainName, iface, 1)

\* One iteration of the loop over stat.Net.
NetIter(loc, iface) ==
    LET idx == FindInterface(loc.desc.Interfaces, iface.Name, 1)
        SourceBridge == IF idx = 0 THEN "" ELSE loc.desc.Interfaces[idx].Bridge
        VirtualInterface == IF idx = 0 THEN "" ELSE loc.desc.Interfaces[idx].InterfaceID
    IN  (IF SourceBridge # "" \/ VirtualInterface # ""
         THEN <<Metric("libvirtDomainMetaInterfacesDesc", Float(1),
                       <<loc.domainName, SourceBridge, iface.Name, VirtualInterface>>)>>
         ELSE <<>>)
        \o NetCounterMetrics(loc.domainName, iface, 1)

RECURSIVE CollectDomainNet(_, _, _)
CollectDomainNet(loc, nets, i) ==
    IF i > Len(nets) THEN <<>>
    ELSE NetIter(loc, nets[i]) \o CollectDomainNet(loc, nets, i + 1)

\* memoryStatCollect: the last value of each known tag, 0 for a missing tag.
ZeroMemoryStats ==
    [MajorFault |-> 0, MinorFault |-> 0, Unused |-> 0, Available |-> 0,
     ActualBalloon |-> 0, Rss |-> 0, Usable |-> 0, DiskCaches |-> 0]

MemoryTagField(tag) ==
    CASE tag = 2 -> "MajorFault" [] tag = 3 -> "MinorFault" [] tag = 4 -> "Unused"
      [] tag = 5 -> "Available" [] tag = 6 -> "ActualBalloon" [] tag = 7 -> "Rss"
      [] tag = 8 -> "Usable" [] tag = 10 -> "DiskCaches" [] OTHER -> "none"

RECURSIVE memoryStatCollectFrom(_, _, _)
memoryStatCollectFrom(memorystat, i, acc) ==
    IF i > Len(memorystat) THEN acc
    ELSE LET f == MemoryTagField(memorystat[i].Tag)
         IN  memoryStatCollectFrom(memorystat, i + 1,
                 IF f = "none" THEN acc ELSE [acc EXCEPT ![f] = memorystat[i].Val])

memoryStatCollect(memorystat) == memoryStatCollectFrom(memorystat, 1, ZeroMemoryStats)

\* Mutant: usedPercent without the test of Usable.
UsedPercentUnguarded(MemoryStats) ==
    IF MemoryStats.Available # 0
    THEN Rat((MemoryStats.Available - MemoryStats.Usable) * 100, MemoryStats.Available)
    ELSE Float(0)

\* usedPercent = (Available - Usable) / (Available / 100)
UsedPercent(MemoryStats) ==
    IF MemoryStats.Usable # 0 /\ MemoryStats.Available # 0
    THEN Rat((MemoryStats.Available - MemoryStats.Usable) * 100, MemoryStats.Available)
    ELSE Float(0)

\* Mutant: The memory records left out when MemoryStats fails.
CollectDomainMemoryOnlyOnSuccess(loc, stat) ==
    IF stat.memErr # NilErr THEN <<>>
    ELSE LET MemoryStats == memoryStatCollect(stat.mem)
             n == <<loc.domainName>>
         IN  << Metric("libvirtDomainMemoryStatMajorFaultTotalDesc", Float(MemoryStats.MajorFault), n),
                Metric("libvirtDomainMemoryStatMinorFaultTotalDesc", Float(MemoryStats.MinorFault), n),
                Metric("libvirtDomainMemoryStatUnusedBytesDesc", KiBToBytes(MemoryStats.Unused), n),
                Metric("libvirtDomainMemoryStatAvailableBytesDesc", KiBToBytes(MemoryStats.Available), n),
                Metric("libvirtDomainMemoryStatActualBaloonBytesDesc", KiBToBytes(MemoryStats.ActualBalloon), n),
                Metric("libvirtDomainMemoryStatRssBytesDesc", KiBToBytes(MemoryStats.Rss), n),
                Metric("libvirtDomainMemoryStatUsableBytesDesc", KiBToBytes(MemoryStats.Usable), n),
                Metric("libvirtDomainMemoryStatDiskCachesBytesDesc", KiBToBytes(MemoryStats.DiskCaches), n),
                Metric("libvirtDomainMemoryStatUsedPercentDesc", UsedPercent(MemoryStats), n) >>

\* CollectDomain from MemoryStats to its return.
CollectDomainMemory(loc, stat) ==
    LET ok == stat.memErr = NilErr
        MemoryStats == IF ok THEN memoryStatCollect(stat.mem) ELSE ZeroMemoryStats
        usedPercent == IF ok THEN UsedPercent(MemoryStats) ELSE Float(0)
        n == <<loc.domainName>>
    IN  << Metric("libvirtDomainMemoryStatMajorFaultTotalDesc", Float(MemoryStats.MajorFault), n),
           Metric("libvirtDomainMemoryStatMinorFaultTotalDesc", Float(MemoryStats.MinorFault), n),
           Metric("libvirtDomainMemoryStatUnusedBytesDesc", KiBToBytes(MemoryStats.Unused), n),
           Metric("libvirtDomainMemoryStatAvailableBytesDesc", KiBToBytes(MemoryStats.Available), n),
           Metric("libvirtDomainMemoryStatActualBaloonBytesDesc", KiBToBytes(MemoryStats.ActualBalloon), n),
           Metric("libvirtDomainMemoryStatRssBytesDesc", KiBToBytes(MemoryStats.Rss), n),
           Metric("libvirtDomainMemoryStatUsableBytesDesc", KiBToBytes(MemoryStats.Usable), n),
           Metric("libvirtDomainMemoryStatDiskCachesBytesDesc", KiBToBytes(MemoryStats.DiskCaches), n),
           Metric("libvirtDomainMemoryStatUsedPercentDesc", usedPercent, n) >>

\* Mutant: A pool mapper that sends the three gauges before it tests the
\* error of GetInfo.
CollectStoragePoolMetricsBeforeInfoTest(pool) ==
    IF pool.refreshErr # NilErr THEN [err |-> pool.refreshErr, recs |-> <<>>]
    ELSE IF pool.nameErr # NilErr THEN [err |-> pool.nameErr, recs |-> <<>>]
    ELSE [err |-> pool.infoErr,
          recs |-> << Metric("libvirtPoolInfoCapacity", Float(pool.Capacity), <<pool.name>>),
                      Metric("libvirtPoolInfoAllocation", Float(pool.Allocation), <<pool.name>>),
                      Metric("libvirtPoolInfoAvailable", Float(pool.Available), <<pool.name>>) >>]

\* CollectStoragePool
CollectStoragePoolMetrics(pool) ==
    IF pool.refreshErr # NilErr THEN [err |-> pool.refreshErr, recs |-> <<>>]
    ELSE IF pool.nameErr # NilErr THEN [err |-> pool.nameErr, recs |-> <<>>]
    ELSE IF pool.infoErr # NilErr THEN [err |-> pool.infoErr, recs |-> <<>>]
    ELSE [err |-> NilErr,
          recs |-> << Metric("libvirtPoolInfoCapacity", Float(pool.Capacity), <<pool.name>>),
                      Metric("libvirtPoolInfoAllocation", Float(pool.Allocation), <<pool.name>>),
                      Metric("libvirtPoolInfoAvailable", Float(pool.Available), <<pool.name>>) >>]

\* fmt.Sprintf("%d.%d.%d", n/1000000%1000, n/1000%1000, n%1000)
FormatVersion(n) ==
    FormatInt((n \div 1000000) % 1000) \o <<".">> \o
    FormatInt((n \div 1000) % 1000) \o <<".">> \o FormatInt(n % 1000)

VersionsMetric(h) ==
    Metric("libvirtVersionsInfoDesc", Float(1),
           <<FormatVersion(h.hypervisorVersionNum), FormatVersion(h.libvirtdVersionNum),
             FormatVersion(h.libraryVersionNum)>>)

\* The first error of the three version queries, in call order.
VersionError(h) ==
    IF h.versionErr # NilErr THEN h.versionErr
    ELSE IF h.libVersionErr # NilErr THEN h.libVersionErr
    ELSE h.libraryVersionErr

\* Mutant: Collect reporting success whatever CollectFromLibvirt returned.
UpValueAlwaysOne(e) == 1

\* The value of the up gauge Collect emits for the error of CollectFromLibvirt.
UpValue(e) == IF e = NilErr THEN 1 ELSE 0

UpMetric(e) == Metric("libvirtUpDesc", Float(UpValue(e)), <<>>)

\* ------------------------------------------------------------------- hosts
Healthy == MkHost(<<BaseDomain(1)>>, <<BasePool(1)>>)

\* Hosts on which one connection-level step fails.
ConnectionHosts ==
    { Healthy,
      [Healthy EXCEPT !.connectErr = ErrInternal],
      [Healthy EXCEPT !.versionErr = ErrInternal],
      [Healthy EXCEPT !.libVersionErr = ErrInternal],
      [Healthy EXCEPT !.libraryVersionErr = ErrInternal],
      [Healthy EXCEPT !.procReadable = FALSE],
      [Healthy EXCEPT !.statsErr = ErrInternal],
      [Healthy EXCEPT !.poolsErr = ErrInternal] }

\* Domain d healthy, or with one of its calls failing.
DomainVariants(d) ==
    LET B == BaseDomain(d)
    IN  { B,
          [B EXCEPT !.nameErr = ErrInternal],
          [B EXCEPT !.monitorErr = ErrInvalid],
          [B EXCEPT !.monitorErr = ErrInternal],
          [B EXCEPT !.monitorErr = OtherError],
          [B EXCEPT !.uuidErr = ErrInternal],
          [B EXCEPT !.xmlErr = ErrInternal],
          [B EXCEPT !.xmlMalformed = TRUE],
          [B EXCEPT !.infoErr = ErrInternal],
          [B EXCEPT !.vcpusErr = ErrInvalid],
          [B EXCEPT !.vcpusErr = ErrInternal],
          [B EXCEPT !.Block = <<BlockStat("vdb", TRUE, NilErr)>>],
          [B EXCEPT !.memErr = ErrInternal] }
        \cup { [B EXCEPT !.Block = <<BlockStat("vda", TRUE, e)>>] :
                 e \in {ErrInvalid, ErrUnsupported, ErrInternal, OtherError} }

\* The lists of length m whose entry i is Base(i), but for at most one
\* position k, which holds any member of Var(k).
OneVaried(m, Base(_), Var(_)) ==
    {[i \in 1..m |-> Base(i)]}
    \cup UNION {{[i \in 1..m |-> IF i = k THEN x ELSE Base(i)] : x \in Var(k)} : k \in 1..m}

\* Batches of up to MaxDomains domains, one of which may be unhealthy.
DomainHosts ==
    {MkHost(ds, <<BasePool(1)>>) :
        ds \in UNION {OneVaried(m, BaseDomain, DomainVariants) : m \in 0..MaxDomains}}

PoolVariants(k) ==
    LET B == BasePool(k)
    IN  { B, [B EXCEPT !.refreshErr = ErrInternal], [B EXCEPT !.nameErr = ErrInternal],
          [B EXCEPT !.infoErr = ErrInternal] }

PoolLists[m \in 0..MaxPools] ==
    IF m = 0 THEN {<<>>}
    ELSE {Append(s, x) : s \in PoolLists[m - 1], x \in PoolVariants(m)}

PoolHosts ==
    {MkHost(<<BaseDomain(1)>>, ps) : ps \in UNION {PoolLists[m] : m \in 0..MaxPools}}

\* Hosts that vary the VCPU data of one domain: the batch stats' WaitSet and
\* DelaySet flags, the number of resolved threads, the result of GetVcpus and
\* the state of the proc filesystem.
DelayFlagLists[m \in 0..MaxVcpus] ==
    IF m = 0 THEN {<<>>}
    ELSE {Append(s, d) : s \in DelayFlagLists[m - 1], d \in BOOLEAN}

VcpuLists ==
    {[i \in 1..Len(ds) |-> VcpuStat(i - 1, w, ds[i])] :
        w \in BOOLEAN, ds \in UNION {DelayFlagLists[m] : m \in 0..MaxVcpus}}

ThreadAnswers ==
    {[monitorErr |-> NilErr, tids |-> [i \in 1..k |-> TidOf(1, i - 1)]] :
        k \in {0, MaxVcpus - 1, MaxVcpus}}
    \cup {[monitorErr |-> ErrInvalid, tids |-> <<>>]}

\* Proc filesystems: healthy, the domain's process not found by command
\* line, or the schedstat file of the first or last thread missing or
\* malformed.
ProcVariants ==
    {[cmdline |-> Healthy.cmdline, schedstat |-> BaseSchedStat(1)],
     [cmdline |-> [Healthy.cmdline EXCEPT ![PidOf(1)] = <<>>], schedstat |-> BaseSchedStat(1)],
     [cmdline |-> Healthy.cmdline,
      schedstat |-> [BaseSchedStat(1) EXCEPT ![<<PidOf(1), TidOf(1, 0)>>] = <<>>]],
     [cmdline |-> Healthy.cmdline,
      schedstat |-> [BaseSchedStat(1) EXCEPT ![<<PidOf(1), TidOf(1, 0)>>] = <<1000, -1, 7>>]],
     [cmdline |-> Healthy.cmdline,
      schedstat |-> [BaseSchedStat(1) EXCEPT ![<<PidOf(1), TidOf(1, MaxVcpus - 1)>>] = <<1000>>]]}

VcpuDomain(e, t, v) ==
    [BaseDomain(1) EXCEPT !.vcpusErr = e, !.monitorErr = t.monitorErr, !.tids = t.tids,
                          !.Vcpu = v,
                          !.vcpuInfo = [i \in 1..Len(v) |-> VcpuInfo(i - 1)]]

VcpuHosts ==
    {[MkHost(<<VcpuDomain(NilErr, t, v)>>, <<BasePool(1)>>)
        EXCEPT !.cmdline = f.cmdline, !.schedstat = f.schedstat] :
        t \in ThreadAnswers, v \in VcpuLists, f \in ProcVariants}
    \cup {MkHost(<<VcpuDomain(ErrInvalid, [monitorErr |-> NilErr, tids |-> <<TidOf(1, 0)>>], v)>>,
                 <<BasePool(1)>>) : v \in VcpuLists}

\* Hosts with two domains, the first with every VCPU estimated from its
\* thread, where scheduler statistics files of the first domain are missing
\* or malformed.
SchedStatVariants ==
    LET B == BaseSchedStat(2)
        first == <<PidOf(1), TidOf(1, 0)>>
        last == <<PidOf(1), TidOf(1, MaxVcpus - 1)>>
    IN  {[B EXCEPT ![first] = <<>>],
         [B EXCEPT ![first] = <<1000, -1, 7>>],
         [B EXCEPT ![last] = <<1000>>],
         [p \in DOMAIN B |-> IF p[1] = PidOf(1) THEN <<>> ELSE B[p]]}

SchedStatHosts ==
    IF MaxDomains < 2 THEN {}
    ELSE {[MkHost(<<VcpuDomain(NilErr,
                              [monitorErr |-> NilErr,
                               tids |-> [i \in 1..MaxVcpus |-> TidOf(1, i - 1)]],
                              [i \in 1..MaxVcpus |-> VcpuStat(i - 1, TRUE, FALSE)]),
                    BaseDomain(2)>>, <<BasePool(1)>>)
             EXCEPT !.schedstat = f] : f \in SchedStatVariants}

\* Hosts that vary the block devices of one domain; the descriptor knows
\* every device but vdb.  A device is the healthy vda, a device the mapper
\* skips, a device without descriptor disk, or vda with a failing
\* GetBlockIoTune or without path.
BaseBlock(i) == BlockStat("vda", TRUE, NilErr)

BlockVariants(i) ==
    {BlockStat("vda", TRUE, e) : e \in {ErrInvalid, ErrUnsupported, ErrInternal, OtherError}}
    \cup {BlockStat("vda", FALSE, NilErr), BlockStat("vdb", TRUE, NilErr),
          BlockStat("hda", TRUE, NilErr), BlockStat("hdc", TRUE, NilErr),
          BlockStat("hda1", TRUE, NilErr), BlockStat("xhdc", TRUE, NilErr)}

\* Lists of up to MaxBlocks devices: all healthy but one, or all alike.
BlockLists ==
    UNION {OneVaried(m, BaseBlock, BlockVariants) : m \in 0..MaxBlocks}
    \cup {[i \in 1..m |-> x] : m \in 1..MaxBlocks, x \in BlockVariants(1)}
    \cup (IF MaxBlocks < 2 THEN {}
          ELSE {<<BlockStat("hda", TRUE, NilErr), BlockStat("hda1", TRUE, NilErr)>>})

\* The disks of the descriptor of these hosts: every device name but vdb.
BlockHostDisks ==
    <<DescDisk("vda"), DescDisk("hda"), DescDisk("hdc"), DescDisk("hda1"), DescDisk("xhdc")>>

BlockHosts ==
    {MkHost(<<[BaseDomain(1) EXCEPT !.Block = b, !.desc.Disks = BlockHostDisks]>>,
            <<BasePool(1)>>) : b \in BlockLists}

\* Hosts that vary the counters present in the batch stats of one device:
\* none, one, all but one or all of them, each field with its own value.
CounterValue(k) == 1000 * k + 7

CounterSets ==
    LET All == Range(BlockCounterFields)
    IN  {{}, All} \cup {{f} : f \in All} \cup {All \ {f} : f \in All}

CounterStats(S) ==
    [f \in S |-> CounterValue(CHOOSE k \in DOMAIN BlockCounterFields : BlockCounterFields[k] = f)]

CounterHosts ==
    IF MaxBlocks < 1 THEN {}
    ELSE {MkHost(<<[BaseDomain(1) EXCEPT
                      !.Block = <<[BlockStat("vda", TRUE, NilErr) EXCEPT !.stats = CounterStats(S)]>>]>>,
                 <<BasePool(1)>>) : S \in CounterSets}

\* Hosts that vary the memory statistics of one domain: the available (tag
\* 5) and usable (tag 8) values, each absent, zero or positive, and a list
\* that repeats the tag of the available memory.
MemoryValues == {-1, 0, 1000, 2000, 3000}

MemoryList(a, u) ==
    (IF a < 0 THEN <<>> ELSE <<[Tag |-> 5, Val |-> a]>>)
    \o <<[Tag |-> 7, Val |-> 900]>>
    \o (IF u < 0 THEN <<>> ELSE <<[Tag |-> 8, Val |-> u]>>)

MemoryLists ==
    {MemoryList(a, u) : a, u \in MemoryValues}
    \cup {<<[Tag |-> 5, Val |-> 4000], [Tag |-> 8, Val |-> 1000], [Tag |-> 5, Val |-> 3000],
           [Tag |-> 9, Val |-> 5]>>}

MemoryHosts ==
    {MkHost(<<[BaseDomain(1) EXCEPT !.mem = m]>>, <<BasePool(1)>>) : m \in MemoryLists}

\* Hosts that vary the raw version numbers the three version queries return.
VersionNumbers == {0, 5, 7002000, 12034056, 999999999, 1000002003}

VersionHosts ==
    {[Healthy EXCEPT !.hypervisorVersionNum = n] : n \in VersionNumbers}
    \cup {[Healthy EXCEPT !.libvirtdVersionNum = n] : n \in VersionNumbers}
    \cup {[Healthy EXCEPT !.libraryVersionNum = n] : n \in VersionNumbers}

\* Hosts that vary the interfaces of one domain: the descriptor declares
\* interfaces with a bridge, with a virtual port, with both and with neither
\* (and tap0 twice); the batch stats hold one interface, declared or not,
\* with none, one, all but one or all of its counters, or two interfaces.
NetHostInterfaces ==
    <<DescInterface("tap0", "br0", ""), DescInterface("tap1", "", "port-1"),
      DescInterface("tap2", "", ""), DescInterface("tap3", "br3", "port-3"),
      DescInterface("tap0", "br9", "port-9")>>

NetCounterSets ==
    LET All == Range(NetCounterFields)
    IN  {{}, All, {"RxBytes"}, {"TxDrop"}, All \ {"TxDrop"}, All \ {"RxBytes"}}

NetCounterStats(S) ==
    [f \in S |-> 10 * (CHOOSE k \in DOMAIN NetCounterFields : NetCounterFields[k] = f) + 3]

NetLists ==
    {<<[Name |-> n, stats |-> NetCounterStats(S)]>> :
        n \in {"tap0", "tap1", "tap2", "tap3", "tap9"}, S \in NetCounterSets}
    \cup {<<[Name |-> "tap2", stats |-> NetCounterStats({"RxPkts"})],
            [Name |-> "tap3", stats |-> NetCounterStats({"TxErrs"})]>>,
          <<>>}

NetHosts ==
    {MkHost(<<[BaseDomain(1) EXCEPT !.Net = l, !.desc.Interfaces = NetHostInterfaces]>>,
            <<BasePool(1)>>) : l \in NetLists}

\* Hosts that vary the proc filesystem seen by one domain, vm1: the listing
\* order, and for the processes 100, 101 and 102 a command line that is
\* unreadable (no entry), empty, another program's, vm1's, or one of a domain
\* whose name starts with vm1 or is shorter than vm1.
ProcListings ==
    {<<1, PidOf(1), PidOf(1) + 1, PidOf(1) + 2>>, <<PidOf(1) + 2, PidOf(1) + 1, PidOf(1), 1>>,
     <<1>>, <<>>}

ProcCmdLines ==
    LET none == <<>>
        Opt(p, S) == {[q \in {p} |-> c] : c \in S} \cup {none}
        Merge(f, g) == [q \in DOMAIN f \cup DOMAIN g |-> IF q \in DOMAIN f THEN f[q] ELSE g[q]]
        init == [q \in {1} |-> InitCmdLine]
    IN  {Merge(init, Merge(a, Merge(b, c))) :
            a \in Opt(PidOf(1), {<<>>, QemuCmdLine(1), InitCmdLine}),
            b \in Opt(PidOf(1) + 1, {<<>>, QemuCmdLine(10)}),
            c \in {[q \in {PidOf(1) + 2} |-> x] : x \in {QemuCmdLine(1), <<"v", "m">>}}}

ProcHosts ==
    {[MkHost(<<BaseDomain(1)>>, <<BasePool(1)>>) EXCEPT !.processes = l, !.cmdline = c] :
        l \in ProcListings, c \in ProcCmdLines}

\* Hosts with two domains where the monitor command of the first fails, as an
\* invalid operation or otherwise, and the batch stats of the first carry no
\* delay for all or all but the first of its VCPUs.
MonitorErrors == {ErrInvalid, ErrUnsupported, OtherError}

MonitorHosts ==
    IF MaxDomains < 2 THEN {}
    ELSE {MkHost(<<VcpuDomain(NilErr,
                             [monitorErr |-> e, tids |-> [i \in 1..MaxVcpus |-> TidOf(1, i - 1)]],
                             [i \in 1..MaxVcpus |-> VcpuStat(i - 1, TRUE, d /\ i = 1)]),
                   BaseDomain(2)>>, <<BasePool(1)>>) :
             e \in MonitorErrors, d \in BOOLEAN}

Hosts ==
    ConnectionHosts \cup DomainHosts \cup PoolHosts \cup VcpuHosts \cup SchedStatHosts
    \cup BlockHosts \cup CounterHosts \cup MemoryHosts \cup VersionHosts
    \cup NetHosts \cup ProcHosts \cup MonitorHosts

\* --------------------------------------------------------------- Describe
\* The descriptors LibvirtExporter.Describe sends, in its order.
Describe ==
    << "libvirtUpDesc", "libvirtVersionsInfoDesc",
       "libvirtPoolInfoCapacity", "libvirtPoolInfoAllocation", "libvirtPoolInfoAvailable",
       "libvirtDomainInfoMetaDesc", "libvirtDomainInfoMaxMemBytesDesc",
       "libvirtDomainInfoMemoryUsageBytesDesc", "libvirtDomainInfoNrVirtCPUDesc",
       "libvirtDomainInfoCPUTimeDesc", "libvirtDomainInfoVirDomainState",
       "libvirtDomainVcpuStateDesc", "libvirtDomainVcpuTimeDesc", "libvirtDomainVcpuDelayDesc",
       "libvirtDomainVcpuCPUDesc", "libvirtDomainVcpuWaitDesc",
       "libvirtDomainMetaBlockDesc", "libvirtDomainBlockRdBytesDesc",
       "libvirtDomainBlockRdReqDesc", "libvirtDomainBlockRdTotalTimeSecondsDesc",
       "libvirtDomainBlockWrBytesDesc", "libvirtDomainBlockWrReqDesc",
       "libvirtDomainBlockWrTotalTimesDesc", "libvirtDomainBlockFlushReqDesc",
       "libvirtDomainBlockFlushTotalTimeSecondsDesc", "libvirtDomainBlockAllocationDesc",
       "libvirtDomainBlockCapacityBytesDesc", "libvirtDomainBlockPhysicalSizeBytesDesc",
       "libvirtDomainMetaInterfacesDesc", "libvirtDomainInterfaceRxBytesDesc",
       "libvirtDomainInterfaceRxPacketsDesc", "libvirtDomainInterfaceRxErrsDesc",
       "libvirtDomainInterfaceRxDropDesc", "libvirtDomainInterfaceTxBytesDesc",
       "libvirtDomainInterfaceTxPacketsDesc", "libvirtDomainInterfaceTxErrsDesc",
       "libvirtDomainInterfaceTxDropDesc",
       "libvirtDomainMemoryStatMajorFaultTotalDesc", "libvirtDomainMemoryStatMinorFaultTotalDesc",
       "libvirtDomainMemoryStatUnusedBytesDesc", "libvirtDomainMemoryStatAvailableBytesDesc",
       "libvirtDomainMemoryStatActualBaloonBytesDesc", "libvirtDomainMemoryStatRssBytesDesc",
       "libvirtDomainMemoryStatUsableBytesDesc", "libvirtDomainMemoryStatDiskCachesBytesDesc" >>

\* ------------------------------------------------------------------- state
VARIABLES
    host,        \* the virtualization host and proc filesystem (read-only)
    pc,          \* position of the scrape in the code
    scrapes,     \* number of Collect calls started
    out,         \* records sent on the channel ch by the current scrape
    log,         \* events written to the logger since process start
    logStart,    \* Len(log) when the current scrape started
    prev,        \* the records sent by the previous scrape
    errorsMap,   \* global errorsMap
    processes,   \* global processes
    err,         \* the error CollectFromLibvirt returns
    stats,       \* stats returned by GetAllDomainStats
    di,          \* index in stats of the domain being mapped
    bi,          \* index in stat.Block of the device being mapped
    loc,         \* locals of CollectDomain
    pools,       \* pools returned by ListAllStoragePools
    pi,          \* index in pools of the pool being mapped
    connOpen,    \* whether the scrape's connection is open
    domHandles,  \* indices of the domain handles not yet freed
    poolHandles, \* indices of the pool handles not yet freed
    calls,       \* hypervisor calls of the current scrape: [op, obj], obj the
                 \* indices of the domain (and device) or pool concerned
    schedReads   \* GetProcPIDSchedStat invocations of the current scrape

vars == <<host, pc, scrapes, out, log, logStart, prev, errorsMap, processes, err, stats,
          di, bi, loc, pools, pi, connOpen, domHandles, poolHandles, calls, schedReads>>

Call(op, obj) == [op |-> op, obj |-> obj]

RECURSIVE CallsOf(_, _, _)
CallsOf(ops, obj, i) ==
    IF i > Len(ops) THEN <<>> ELSE <<Call(ops[i], obj)>> \o CallsOf(ops, obj, i + 1)

\* main: errorsMap is made empty, processes is nil, nothing was scraped.
Init ==
    /\ host \in Hosts
    /\ pc = "idle"
    /\ scrapes = 0
    /\ out = <<>>
    /\ log = <<>>
    /\ logStart = 0
    /\ prev = <<>>
    /\ errorsMap = {}
    /\ processes = <<>>
    /\ err = NilErr
    /\ stats = <<>>
    /\ di = 0
    /\ bi = 0
    /\ loc = NoLocals
    /\ pools = <<>>
    /\ pi = 0
    /\ connOpen = FALSE
    /\ domHandles = {}
    /\ poolHandles = {}
    /\ calls = <<>>
    /\ schedReads = <<>>

\* Mutant: A Collect whose channel still holds the records of the scrape
\* before.
CollectKeepsRecords ==
    /\ pc = "idle"
    /\ scrapes < MaxScrapes
    /\ pc' = "NewConnect"
    /\ scrapes' = scrapes + 1
    /\ out' = out
    /\ logStart' = Len(log)
    /\ prev' = out
    /\ err' = NilErr
    /\ stats' = <<>>
    /\ pools' = <<>>
    /\ di' = 0 /\ bi' = 0 /\ pi' = 0
    /\ loc' = NoLocals
    /\ calls' = <<>>
    /\ schedReads' = <<>>
    /\ UNCHANGED <<host, log, errorsMap, processes, connOpen, domHandles, poolHandles>>

\* The registry calls Collect: a new scrape starts with an empty channel.
Collect ==
    /\ pc = "idle"
    /\ scrapes < MaxScrapes
    /\ pc' = "NewConnect"
    /\ scrapes' = scrapes + 1
    /\ out' = <<>>
    /\ logStart' = Len(log)
    /\ prev' = out
    /\ err' = NilErr
    /\ stats' = <<>>
    /\ pools' = <<>>
    /\ di' = 0 /\ bi' = 0 /\ pi' = 0
    /\ loc' = NoLocals
    /\ calls' = <<>>
    /\ schedReads' = <<>>
    /\ UNCHANGED <<host, log, errorsMap, processes, connOpen, domHandles, poolHandles>>

\* CollectFromLibvirt: libvirt.NewConnect and defer conn.Close().
NewConnect ==
    /\ pc = "NewConnect"
    /\ calls' = Append(calls, Call("NewConnect", <<>>))
    /\ IF host.connectErr # NilErr
       THEN /\ err' = host.connectErr
            /\ pc' = "Up"
            /\ UNCHANGED connOpen
       ELSE /\ connOpen' = TRUE
            /\ pc' = "GetVersion"
            /\ UNCHANGED err
    /\ UNCHANGED <<host, scrapes, out, log, logStart, prev, errorsMap, processes, stats, di, bi,
                   loc, pools, pi, domHandles, poolHandles, schedReads>>

\* CollectFromLibvirt: the three version queries, utils.GetProcessList (which
\* ends the process with log.Fatal when the proc mount cannot be read) and
\* the versions record.
GetVersion ==
    /\ pc = "GetVersion"
    /\ calls' = Append(calls, Call("GetVersion", <<>>))
    /\ IF VersionError(host) # NilErr
       THEN /\ err' = VersionError(host)
            /\ pc' = "Return"
            /\ UNCHANGED <<out, processes>>
       ELSE IF ~host.procReadable
       THEN /\ pc' = "exited"
            /\ UNCHANGED <<err, out, processes>>
       ELSE /\ processes' = host.processes
            /\ out' = Append(out, VersionsMetric(host))
            /\ pc' = "GetAllDomainStats"
            /\ UNCHANGED err
    /\ UNCHANGED <<host, scrapes, log, logStart, prev, errorsMap, stats, di, bi, loc, pools, pi,
                   connOpen, domHandles, poolHandles, schedReads>>

\* Where CollectFromLibvirt continues after the domain at index i.
AfterDomain(i, n) == IF i < n THEN "CollectDomain" ELSE "ListAllStoragePools"

\* Mutant: GetAllDomainStats whose error is dropped.
DomainStatsResultErrDropped(h) == [stats |-> h.domains, err |-> NilErr]

\* conn.GetAllDomainStats: the batch, or no stats and the error.
DomainStatsResult(h) ==
    IF h.statsErr # NilErr
    THEN [stats |-> <<>>, err |-> h.statsErr]
    ELSE [stats |-> h.domains, err |-> NilErr]

\* Mutant: The loop of CollectFromLibvirt going on after a mapper error.
PropagateIgnored(e, next) == next

\* "err = CollectDomain(...); if err != nil { return err }": the position
\* after a step of the mapper that ended with error e, next otherwise.
Propagate(e, next) == IF e # NilErr THEN "Return" ELSE next

\* CollectFromLibvirt: conn.GetAllDomainStats and the deferred Free of every
\* returned domain handle.
GetAllDomainStats ==
    /\ pc = "GetAllDomainStats"
    /\ calls' = Append(calls, Call("GetAllDomainStats", <<>>))
    /\ LET r == DomainStatsResult(host)
       IN  /\ stats' = r.stats
           /\ domHandles' = domHandles \cup (1..Len(r.stats))
           /\ err' = r.err
           /\ IF r.err # NilErr
              THEN pc' = "Return" /\ UNCHANGED di
              ELSE di' = 1 /\ pc' = AfterDomain(0, Len(r.stats))
    /\ UNCHANGED <<host, scrapes, out, log, logStart, prev, errorsMap, processes, bi, loc, pools,
                   pi, connOpen, poolHandles, schedReads>>

\* CollectDomain, from its entry to the domain info records.
CollectDomain ==
    /\ pc = "CollectDomain"
    /\ LET r == CollectDomainInfo(host, processes, stats[di])
       IN  /\ calls' = calls \o CallsOf(r.calls, <<di>>, 1)
           /\ out' = out \o r.recs
           /\ loc' = r.loc
           /\ err' = r.err
           /\ pc' = Propagate(r.err, "GetVcpus")
    /\ UNCHANGED <<host, scrapes, log, logStart, prev, errorsMap, processes, stats, di, bi, pools,
                   pi, connOpen, domHandles, poolHandles, schedReads>>

\* Where CollectDomain continues after the block device at index i.
AfterBlock(i, n) == IF i < n THEN "Block" ELSE "Net"

\* CollectDomain: GetVcpus, the VCPU records and the loop over stat.Vcpu.
GetVcpus ==
    /\ pc = "GetVcpus"
    /\ LET r == CollectDomainVcpu(host, loc, stats[di])
       IN  /\ calls' = Append(calls, Call("GetVcpus", <<di>>))
           /\ out' = out \o r.recs
           /\ log' = log \o r.logs
           /\ schedReads' = schedReads \o r.reads
           /\ err' = r.err
           /\ bi' = 1
           /\ pc' = Propagate(r.err, AfterBlock(0, Len(stats[di].Block)))
    /\ UNCHANGED <<host, scrapes, logStart, prev, errorsMap, processes, stats, di, loc, pools, pi,
                   connOpen, domHandles, poolHandles>>

\* CollectDomain: one iteration of the loop over stat.Block.  A panic is not
\* recovered anywhere: the deferred functions of CollectFromLibvirt run and
\* the process ends.
Block ==
    /\ pc = "Block"
    /\ LET disk == stats[di].Block[bi]
           r == CollectDomainBlock(loc, disk, errorsMap)
       IN  /\ calls' = IF IsSkippedDisk(disk.Name) \/ r.panic THEN calls
                       ELSE Append(calls, Call("GetBlockIoTune", <<di, bi>>))
           /\ out' = out \o r.recs
           /\ log' = log \o r.logs
           /\ errorsMap' = r.errorsMap
           /\ err' = r.err
           /\ IF r.panic
              THEN /\ pc' = "crashed"
                   /\ domHandles' = domHandles \ (1..Len(stats))
                   /\ connOpen' = FALSE
                   /\ UNCHANGED bi
              ELSE /\ bi' = IF r.err # NilErr THEN bi ELSE bi + 1
                   /\ pc' = Propagate(r.err, AfterBlock(bi, Len(stats[di].Block)))
                   /\ UNCHANGED <<connOpen, domHandles>>
    /\ UNCHANGED <<host, scrapes, logStart, prev, processes, stats, di, loc, pools, pi,
                   poolHandles, schedReads>>

\* CollectDomain: the loop over stat.Net.
Net ==
    /\ pc = "Net"
    /\ out' = out \o CollectDomainNet(loc, stats[di].Net, 1)
    /\ pc' = "MemoryStats"
    /\ UNCHANGED <<host, scrapes, log, logStart, prev, errorsMap, processes, err, stats, di, bi,
                   loc, pools, pi, connOpen, domHandles, poolHandles, calls, schedReads>>

\* CollectDomain: MemoryStats, the nine memory records and the return to the
\* loop of CollectFromLibvirt.
MemoryStats ==
    /\ pc = "MemoryStats"
    /\ calls' = Append(calls, Call("MemoryStats", <<di>>))
    /\ out' = out \o CollectDomainMemory(loc, stats[di])
    /\ di' = di + 1
    /\ pc' = AfterDomain(di, Len(stats))
    /\ UNCHANGED <<host, scrapes, log, logStart, prev, errorsMap, processes, err, stats, bi,
                   loc, pools, pi, connOpen, domHandles, poolHandles, schedReads>>

\* Where CollectFromLibvirt continues after the pool at index i.
AfterPool(i, n) == IF i < n THEN "CollectStoragePool" ELSE "Return"

\* CollectFromLibvirt: conn.ListAllStoragePools.
ListAllStoragePools ==
    /\ pc = "ListAllStoragePools"
    /\ calls' = Append(calls, Call("ListAllStoragePools", <<>>))
    /\ IF host.poolsErr # NilErr
       THEN /\ err' = host.poolsErr
            /\ pc' = "Return"
            /\ UNCHANGED <<pools, pi, poolHandles>>
       ELSE /\ pools' = host.pools
            /\ poolHandles' = 1..Len(host.pools)
            /\ pi' = 1
            /\ pc' = AfterPool(0, Len(host.pools))
            /\ UNCHANGED err
    /\ UNCHANGED <<host, scrapes, out, log, logStart, prev, errorsMap, processes, stats, di, bi,
                   loc, connOpen, domHandles, schedReads>>

\* CollectFromLibvirt: one iteration of the loop over pools: CollectStoragePool
\* and pool.Free().
CollectStoragePool ==
    /\ pc = "CollectStoragePool"
    /\ LET r == CollectStoragePoolMetrics(pools[pi])
       IN  /\ calls' = Append(calls, Call("CollectStoragePool", <<pi>>))
           /\ out' = out \o r.recs
           /\ poolHandles' = poolHandles \ {pi}
           /\ IF r.err # NilErr
              THEN err' = r.err /\ pc' = "Return" /\ UNCHANGED pi
              ELSE /\ pi' = pi + 1
                   /\ pc' = AfterPool(pi, Len(pools))
                   /\ UNCHANGED err
    /\ UNCHANGED <<host, scrapes, log, logStart, prev, errorsMap, processes, stats, di, bi, loc,
                   pools, connOpen, domHandles, schedReads>>

\* Mutant: The return of CollectFromLibvirt without the deferred conn.Close.
ReturnKeepsConnection ==
    /\ pc = "Return"
    /\ domHandles' = domHandles \ (1..Len(stats))
    /\ pc' = "Up"
    /\ UNCHANGED <<host, scrapes, out, log, logStart, prev, errorsMap, processes, err, stats, di,
                   bi, loc, pools, pi, poolHandles, calls, schedReads, connOpen>>

\* CollectFromLibvirt returns: the deferred functions run, last registered
\* first (Free of every domain of stats, then conn.Close).
Return ==
    /\ pc = "Return"
    /\ domHandles' = domHandles \ (1..Len(stats))
    /\ connOpen' = FALSE
    /\ pc' = "Up"
    /\ UNCHANGED <<host, scrapes, out, log, logStart, prev, errorsMap, processes, err, stats, di,
                   bi, loc, pools, pi, poolHandles, calls, schedReads>>

\* The log events Collect writes for the error of CollectFromLibvirt.
ScrapeLog(e) ==
    IF e = NilErr THEN <<>> ELSE <<LogEvent("failed to scrape metrics", e)>>

\* Mutant: A Collect that sends the records of a failed scrape nowhere: only
\* the up gauge is left of it.
UpRollsBack ==
    /\ pc = "Up"
    /\ out' = IF err = NilErr THEN Append(out, UpMetric(err)) ELSE <<UpMetric(err)>>
    /\ log' = log \o ScrapeLog(err)
    /\ pc' = "idle"
    /\ UNCHANGED <<host, scrapes, logStart, prev, errorsMap, processes, err, stats, di, bi, loc,
                   pools, pi, connOpen, domHandles, poolHandles, calls, schedReads>>

\* Collect: the up gauge, and the log event of a failed scrape.
Up ==
    /\ pc = "Up"
    /\ out' = Append(out, UpMetric(err))
    /\ log' = log \o ScrapeLog(err)
    /\ pc' = "idle"
    /\ UNCHANGED <<host, scrapes, logStart, prev, errorsMap, processes, err, stats, di, bi, loc,
                   pools, pi, connOpen, domHandles, poolHandles, calls, schedReads>>

Next ==
    \/ Collect
    \/ NewConnect
    \/ GetVersion
    \/ GetAllDomainStats
    \/ CollectDomain
    \/ GetVcpus
    \/ Block
    \/ Net
    \/ MemoryStats
    \/ ListAllStoragePools
    \/ CollectStoragePool
    \/ Return
    \/ Up

Spec == Init /\ [][Next]_vars

\* ------------------------------------------------- WriteErrorOnce in isolation
\* The names and messages WriteErrorOnce is called with.
ErrorNames == {"blkiotune_unsupported", "vcpu_unsupported", "memstat_unsupported"}

ErrorTexts == {"Unsupported operation", "Unsupported operation (again)"}

\* The process after main has made the empty errorsMap, before any scrape.
InitDedup ==
    /\ host = Healthy
    /\ pc = "main"
    /\ scrapes = 0
    /\ out = <<>>
    /\ log = <<>>
    /\ logStart = 0
    /\ prev = <<>>
    /\ errorsMap = {}
    /\ processes = <<>>
    /\ err = NilErr
    /\ stats = <<>>
    /\ di = 0
    /\ bi = 0
    /\ loc = NoLocals
    /\ pools = <<>>
    /\ pi = 0
    /\ connOpen = FALSE
    /\ domHandles = {}
    /\ poolHandles = {}
    /\ calls = <<>>
    /\ schedReads = <<>>

\* A call WriteErrorOnce(text, name, logger); calls remembers its arguments.
WriteErrorOnceCall ==
    /\ pc = "main"
    /\ Len(calls) < MaxCalls
    /\ \E name \in ErrorNames, text \in ErrorTexts :
          LET w == WriteErrorOnce(errorsMap, text, name)
          IN  /\ log' = log \o w.logs
              /\ errorsMap' = w.errorsMap
              /\ calls' = Append(calls, Call("WriteErrorOnce", <<name, text>>))
    /\ UNCHANGED <<host, pc, scrapes, out, logStart, prev, processes, err, stats, di, bi, loc,
                   pools, pi, connOpen, domHandles, poolHandles, schedReads>>

NextDedup == WriteErrorOnceCall

SpecDedup == InitDedup /\ [][NextDedup]_vars

\* ------------------------------------------------------- concurrent scrapes
\* The registry may call Collect from several goroutines at once; Collect
\* takes no lock.  Each goroutine is followed through its accesses to the
\* package variable processes: the assignment in CollectFromLibvirt and the
\* range over it in GetDomainPid; the rest of a scrape works on locals.  In
\* this specification pc and loc are functions of the goroutine.
Scrapers == 1..MaxScrapers

\* The proc listing before and after the domain's process restarted with a
\* new process id.
Listing(v) == <<1, PidOf(1) + v>>

RestartedHost(h) ==
    [h EXCEPT !.processes = Listing(1),
              !.cmdline = [p \in {1, PidOf(1) + 1} |->
                              IF p = 1 THEN InitCmdLine ELSE QemuCmdLine(1)]]

\* The locals of a goroutine: the listing utils.GetProcessList returned to
\* it, the values its next read of processes may observe, the listing
\* GetDomainPid ranged over, and the pid it found.
NoScrapeLocals == [listed |-> <<>>, visible |-> {}, ranged |-> <<>>, domainPid |-> 0]

InitConcurrent ==
    /\ host = Healthy
    /\ pc = [g \in Scrapers |-> "idle"]
    /\ scrapes = 0
    /\ out = <<>>
    /\ log = <<>>
    /\ logStart = 0
    /\ prev = <<>>
    /\ errorsMap = {}
    /\ processes = <<>>
    /\ err = NilErr
    /\ stats = <<>>
    /\ di = 0
    /\ bi = 0
    /\ loc = [g \in Scrapers |-> NoScrapeLocals]
    /\ pools = <<>>
    /\ pi = 0
    /\ connOpen = FALSE
    /\ domHandles = {}
    /\ poolHandles = {}
    /\ calls = <<>>
    /\ schedReads = <<>>

\* The registry calls Collect in goroutine g.
CollectIn(g) ==
    /\ pc[g] = "idle"
    /\ scrapes < MaxScrapes
    /\ scrapes' = scrapes + 1
    /\ pc' = [pc EXCEPT ![g] = "GetProcessList"]
    /\ loc' = [loc EXCEPT ![g] = NoScrapeLocals]
    /\ UNCHANGED <<host, out, log, logStart, prev, errorsMap, processes, err, stats, di, bi,
                   pools, pi, connOpen, domHandles, poolHandles, calls, schedReads>>

\* utils.GetProcessList(*procFSPath) in goroutine g: os.ReadDir lists the
\* proc filesystem as it is now; the result is not yet stored.
GetProcessListIn(g) ==
    /\ pc[g] = "GetProcessList"
    /\ loc' = [loc EXCEPT ![g].listed = host.processes]
    /\ pc' = [pc EXCEPT ![g] = "StoreProcesses"]
    /\ UNCHANGED <<host, scrapes, out, log, logStart, prev, errorsMap, processes, err, stats,
                   di, bi, pools, pi, connOpen, domHandles, poolHandles, calls, schedReads>>

\* processes = <result of GetProcessList> in goroutine g: the listing g read
\* earlier, however old, replaces the value of the package variable.  The
\* store is ordered before g's own read, so it hides every earlier store from
\* g; it is not ordered with the read of a goroutine that has stored and not
\* yet ranged, which may observe it.
StoreProcessesIn(g) ==
    /\ pc[g] = "StoreProcesses"
    /\ processes' = loc[g].listed
    /\ loc' = [h \in Scrapers |->
                  IF h = g THEN [loc[h] EXCEPT !.visible = {loc[g].listed}]
                  ELSE IF pc[h] = "GetDomainPid"
                       THEN [loc[h] EXCEPT !.visible = @ \cup {loc[g].listed}]
                       ELSE loc[h]]
    /\ pc' = [pc EXCEPT ![g] = "GetDomainPid"]
    /\ UNCHANGED <<host, scrapes, out, log, logStart, prev, errorsMap, err, stats, di, bi,
                   pools, pi, connOpen, domHandles, poolHandles, calls, schedReads>>

\* The values a read of processes by goroutine g may observe (a data race):
\* the current value of the variable, g's own store, or any store another
\* goroutine made since, none of which is ordered with the read.
ObservableProcesses(g) == {processes} \cup loc[g].visible

\* GetDomainPid(domainName) in goroutine g: the range over processes.
GetDomainPidIn(g) ==
    /\ pc[g] = "GetDomainPid"
    /\ \E ps \in ObservableProcesses(g) :
          loc' = [loc EXCEPT ![g].ranged = ps,
                             ![g].domainPid = GetDomainPid(host, ps, DomainName(1))]
    /\ pc' = [pc EXCEPT ![g] = "Up"]
    /\ UNCHANGED <<host, scrapes, out, log, logStart, prev, errorsMap, processes, err, stats, di,
                   bi, pools, pi, connOpen, domHandles, poolHandles, calls, schedReads>>

\* Collect returns in goroutine g.
CollectReturnsIn(g) ==
    /\ pc[g] = "Up"
    /\ pc' = [pc EXCEPT ![g] = "idle"]
    /\ UNCHANGED <<host, scrapes, out, log, logStart, prev, errorsMap, processes, err, stats, di,
                   bi, loc, pools, pi, connOpen, domHandles, poolHandles, calls, schedReads>>

\* The domain's process restarts: the proc filesystem lists a new pid.
ProcessRestarts ==
    /\ host.processes = Listing(0)
    /\ host' = RestartedHost(host)
    /\ UNCHANGED <<pc, scrapes, out, log, logStart, prev, errorsMap, processes, err, stats, di,
                   bi, loc, pools, pi, connOpen, domHandles, poolHandles, calls, schedReads>>

NextConcurrent ==
    \/ \E g \in Scrapers : CollectIn(g)
    \/ \E g \in Scrapers : GetProcessListIn(g)
    \/ \E g \in Scrapers : StoreProcessesIn(g)
    \/ \E g \in Scrapers : GetDomainPidIn(g)
    \/ \E g \in Scrapers : CollectReturnsIn(g)
    \/ ProcessRestarts

SpecConcurrent == InitConcurrent /\ [][NextConcurrent]_vars

\* ------------------------------------------------------------- properties
\* A scrape has returned to the registry.
ScrapeReturned == pc = "idle" /\ scrapes > 0

\* The last record of the current scrape.
LastRecord == out[Len(out)]

\* The events logged by the current scrape.
ScrapeLogs == SubSeq(log, logStart + 1, Len(log))

IsUp(m, v) == m.desc = "libvirtUpDesc" /\ m.value = [num |-> v, den |-> 1]

FailedScrapeEvents ==
    {i \in DOMAIN ScrapeLogs : ScrapeLogs[i].err = "failed to scrape metrics"}

\* Descriptors of the records of CollectDomain and CollectStoragePool.
OrchestratorDescs == {"libvirtVersionsInfoDesc", "libvirtUpDesc"}

\* The hypervisor calls made by the mapper of a domain.
MapperOps == Range(DomainInfoCalls) \cup {"GetVcpus", "GetBlockIoTune", "MemoryStats"}

\* The errors of a domain's calls that CollectDomain returns to its caller.
DomainFails(d) ==
    \/ d.nameErr # NilErr
    \/ d.monitorErr \notin {NilErr, ErrInvalid}
    \/ d.uuidErr # NilErr
    \/ d.xmlErr # NilErr
    \/ d.xmlMalformed
    \/ d.infoErr # NilErr
    \/ d.vcpusErr \notin {NilErr, ErrInvalid}
    \/ \E b \in DOMAIN d.Block :
          d.Block[b].Name \notin {"hda", "hdc"} /\ d.Block[b].tuneErr.type = "error"

PoolFails(p) == p.refreshErr # NilErr \/ p.nameErr # NilErr \/ p.infoErr # NilErr

\* Some step of a scrape of host h fails with an error that is not tolerated:
\* connect, a version query, the batch stats, a domain mapper, the pool
\* listing or a pool mapper.
HostFails(h) ==
    \/ h.connectErr # NilErr
    \/ h.versionErr # NilErr \/ h.libVersionErr # NilErr \/ h.libraryVersionErr # NilErr
    \/ h.statsErr # NilErr
    \/ \E d \in DOMAIN h.domains : DomainFails(h.domains[d])
    \/ h.poolsErr # NilErr
    \/ \E p \in DOMAIN h.pools : PoolFails(h.pools[p])

\* C1: when a scrape returns, its up gauge is 1 if no step failed with an
\* error that propagates (connect, version query, batch stats, a domain
\* mapper, pool listing, a pool mapper) and 0 otherwise; a failed scrape logs
\* its error exactly once, a successful one logs no scrape failure, and no
\* hypervisor call is made twice in the scrape.
C1_UpReflectsError ==
    ScrapeReturned =>
        /\ Len(out) > 0
        /\ (err = NilErr => IsUp(LastRecord, 1) /\ FailedScrapeEvents = {})
        /\ (err # NilErr =>
                /\ IsUp(LastRecord, 0)
                /\ FailedScrapeEvents = {Len(ScrapeLogs)}
                /\ ScrapeLogs[Len(ScrapeLogs)].msg = err)
        /\ (err # NilErr <=> HostFails(host))
        /\ \A i, j \in DOMAIN calls : i # j => calls[i] # calls[j]

\* C1 witness: a scrape returned with up = 0 after a domain mapper failed,
\* with records already emitted.
C1_Witness ==
    /\ ScrapeReturned
    /\ err # NilErr
    /\ calls[Len(calls)].op \in MapperOps
    /\ Len(out) > 1
    /\ IsUp(LastRecord, 0)

\* Domain k of the batch is the first whose mapper returns an error.
FirstFailingDomain(k) ==
    /\ k \in DOMAIN stats
    /\ DomainFails(stats[k])
    /\ \A j \in 1..(k - 1) : ~DomainFails(stats[j])

PoolDescs == {"libvirtPoolInfoCapacity", "libvirtPoolInfoAllocation", "libvirtPoolInfoAvailable"}

\* The records of the current scrape that carry the name of batch domain j.
RecordsOfDomain(j) ==
    {i \in DOMAIN out :
        out[i].desc \notin OrchestratorDescs \cup PoolDescs /\ out[i].labels[1] = stats[j].name}

\* C2: when the mapper of the k-th domain of the batch returns an error, the
\* scrape emits no record of a later domain, makes no call on a later domain,
\* neither lists nor maps the storage pools, and ends with up = 0.
C2_MapperErrorAbortsScrape ==
    ScrapeReturned =>
        \A k \in DOMAIN stats : FirstFailingDomain(k) =>
            /\ \A j \in (k + 1)..Len(stats) : RecordsOfDomain(j) = {}
            /\ \A i \in DOMAIN out : out[i].desc \notin PoolDescs
            /\ \A i \in DOMAIN calls :
                  /\ calls[i].op \notin {"ListAllStoragePools", "CollectStoragePool"}
                  /\ calls[i].op \in MapperOps => calls[i].obj[1] <= k
            /\ IsUp(LastRecord, 0)

\* C2 witness: the first domain of a batch of two failed after emitting
\* records and the scrape returned.
C2_Witness ==
    /\ ScrapeReturned
    /\ Len(stats) >= 2
    /\ FirstFailingDomain(1)
    /\ RecordsOfDomain(1) # {}
    /\ host.pools # <<>>

\* C3: when GetAllDomainStats fails, the scrape emits nothing but the versions
\* record and up = 0 (no domain, VCPU, block, interface, memory or pool
\* record) and logs the error exactly once.
C3_BatchStatsFailure ==
    (ScrapeReturned /\ host.statsErr # NilErr
        /\ Call("GetAllDomainStats", <<>>) \in Range(calls)) =>
        /\ \A i \in DOMAIN out : out[i].desc \in OrchestratorDescs
        /\ IsUp(LastRecord, 0)
        /\ Len(ScrapeLogs) = 1
        /\ ScrapeLogs[1].msg = host.statsErr

\* C3 witness: a scrape whose batch stats call failed has returned.
C3_Witness ==
    /\ ScrapeReturned
    /\ host.statsErr # NilErr
    /\ host.domains # <<>>
    /\ Call("GetAllDomainStats", <<>>) \in Range(calls)

\* Seconds back to nanoseconds, for a value whose denominator divides 1e9.
NsOf(v) == v.num * (NsPerSec \div v.den)

\* The delay records of VCPU c (0-based) of batch domain j.
DelayRecordsOf(j, c) ==
    {i \in DOMAIN out :
        /\ out[i].desc = "libvirtDomainVcpuDelayDesc"
        /\ out[i].labels = <<stats[j].name, FormatInt(c)>>}

\* The scheduler-stat reads made for VCPU c of batch domain j.
ReadsOf(j, c) ==
    {i \in DOMAIN schedReads :
        schedReads[i].domain = stats[j].name /\ schedReads[i].cpuNum = c}

\* The mapper of batch domain j has passed its GetVcpus step.
VcpuStepDone(j) == Call("GetVcpus", <<j>>) \in Range(calls)

VcpuNumbers(j) == 0..(Len(stats[j].Vcpu) - 1)

\* C4: for a VCPU whose batch stats carry a delay (DelaySet), no scheduler
\* statistics are read, every delay record emitted for it is the hypervisor's
\* delay in seconds (value * 1e9 = Delay), and one is emitted once GetVcpus
\* succeeded.
C4_HypervisorDelayPreferred ==
    \A j \in DOMAIN stats : \A c \in VcpuNumbers(j) :
        stats[j].Vcpu[c + 1].DelaySet =>
            /\ ReadsOf(j, c) = {}
            /\ \A i \in DelayRecordsOf(j, c) :
                  /\ NsPerSec % out[i].value.den = 0
                  /\ NsOf(out[i].value) = stats[j].Vcpu[c + 1].Delay
            /\ (VcpuStepDone(j) /\ stats[j].vcpusErr = NilErr
                  => Cardinality(DelayRecordsOf(j, c)) = 1)

\* C4 witness: a delay record was emitted for a VCPU with DelaySet while a
\* thread was resolved for it and another VCPU of the domain was estimated.
C4_Witness ==
    \E j \in DOMAIN stats : \E c, c2 \in VcpuNumbers(j) :
        /\ stats[j].Vcpu[c + 1].DelaySet
        /\ DelayRecordsOf(j, c) # {}
        /\ Len(loc.domainVcpuPids) > c
        /\ ReadsOf(j, c2) # {}

\* The thread ids and the process id the resolvers yield for batch domain j.
ThreadsOf(j) == GetDomainVcpuPids(stats[j]).vCPUPids

ResolvedPid(j) == GetDomainPid(host, host.processes, stats[j].name)

\* The scheduler statistics file of VCPU c of batch domain j under the task
\* directory of the resolved process, and whether it holds three counters.
SchedStatFile(j, c) ==
    LET path == <<ResolvedPid(j), ThreadsOf(j)[c + 1]>>
    IN  IF path \in DOMAIN host.schedstat THEN host.schedstat[path] ELSE <<>>

Readable(j, c) ==
    Len(SchedStatFile(j, c)) >= 3 /\ \A k \in 1..3 : SchedStatFile(j, c)[k] >= 0

\* A delay value exists for VCPU c of batch domain j: the hypervisor's, or
\* the statistics of a resolved thread.
DelayAvailable(j, c) ==
    \/ stats[j].Vcpu[c + 1].DelaySet
    \/ c < Len(ThreadsOf(j)) /\ Readable(j, c)

\* C5 (as stated): once the mapper of a domain has passed its VCPU step
\* without a returned error, exactly one delay record exists for each of the
\* domain's VCPUs.
C5_ExactlyOneDelay ==
    \A j \in DOMAIN stats : \A c \in VcpuNumbers(j) :
        (VcpuStepDone(j) /\ ~IsFatal(stats[j].vcpusErr))
            => Cardinality(DelayRecordsOf(j, c)) = 1

\* C5 (amended): at most one delay record is emitted per VCPU and scrape,
\* never from both sources (no scheduler statistics are read for a VCPU with
\* a hypervisor delay, and an estimated record comes with exactly one read);
\* once the VCPU step is done exactly one record exists if and only if
\* GetVcpus succeeded and a delay was available (DelaySet, or a resolved
\* thread with readable scheduler statistics), otherwise none.
C5_AtMostOneDelay ==
    \A j \in DOMAIN stats : \A c \in VcpuNumbers(j) :
        /\ Cardinality(DelayRecordsOf(j, c)) <= 1
        /\ ~(stats[j].Vcpu[c + 1].DelaySet /\ ReadsOf(j, c) # {})
        /\ (~stats[j].Vcpu[c + 1].DelaySet /\ DelayRecordsOf(j, c) # {}
                => Cardinality(ReadsOf(j, c)) = 1)
        /\ (VcpuStepDone(j) =>
                (Cardinality(DelayRecordsOf(j, c)) = 1
                    <=> (stats[j].vcpusErr = NilErr /\ DelayAvailable(j, c))))

\* C5 witness: in one domain whose VCPU step is done, a VCPU with both a
\* hypervisor delay and a resolved thread with readable statistics has one
\* delay record, and a VCPU without hypervisor delay and without resolved
\* thread has none.
C5_Witness ==
    \E j \in DOMAIN stats : \E c1, c3 \in VcpuNumbers(j) :
        /\ VcpuStepDone(j)
        /\ stats[j].Vcpu[c1 + 1].DelaySet
        /\ c1 < Len(ThreadsOf(j)) /\ Readable(j, c1)
        /\ Cardinality(DelayRecordsOf(j, c1)) = 1
        /\ ~stats[j].Vcpu[c3 + 1].DelaySet
        /\ c3 >= Len(ThreadsOf(j))
        /\ DelayRecordsOf(j, c3) = {}

\* C6: for a VCPU without hypervisor delay: when its index is not below the
\* number of resolved thread ids, no delay record is emitted and nothing is
\* read; otherwise every read made for it is of the thread at that index
\* under the resolved process id, every delay record is that file's
\* run-queue time in seconds (value * 1e9 = run-queue nanoseconds), and one
\* record is emitted once GetVcpus succeeded and the file is readable.
C6_EstimatedDelay ==
    \A j \in DOMAIN stats : \A c \in VcpuNumbers(j) :
        ~stats[j].Vcpu[c + 1].DelaySet =>
            /\ (c >= Len(ThreadsOf(j)) => DelayRecordsOf(j, c) = {} /\ ReadsOf(j, c) = {})
            /\ (c < Len(ThreadsOf(j)) =>
                  /\ \A r \in ReadsOf(j, c) :
                        /\ schedReads[r].pid = ResolvedPid(j)
                        /\ schedReads[r].tid = ThreadsOf(j)[c + 1]
                  /\ \A i \in DelayRecordsOf(j, c) :
                        /\ Readable(j, c)
                        /\ NsPerSec % out[i].value.den = 0
                        /\ NsOf(out[i].value) = SchedStatFile(j, c)[2]
                  /\ (VcpuStepDone(j) /\ stats[j].vcpusErr = NilErr /\ Readable(j, c)
                        => Cardinality(DelayRecordsOf(j, c)) = 1))

\* C6 witness: process 100, thread 150 with 500000001 ns of run-queue time:
\* VCPU 0 has the delay record 0.500000001 read from that thread, and VCPU 1
\* of the same domain, without resolved thread, has none.
C6_Witness ==
    \E j \in DOMAIN stats :
        /\ VcpuStepDone(j)
        /\ Len(stats[j].Vcpu) >= 2
        /\ ~stats[j].Vcpu[1].DelaySet /\ ~stats[j].Vcpu[2].DelaySet
        /\ ResolvedPid(j) = 100 /\ ThreadsOf(j) = <<150>>
        /\ \E r \in ReadsOf(j, 0) : schedReads[r].pid = 100 /\ schedReads[r].tid = 150
        /\ \E i \in DelayRecordsOf(j, 0) : out[i].value = [num |-> 500000001, den |-> NsPerSec]
        /\ DelayRecordsOf(j, 1) = {}

\* The wait records of VCPU c (0-based) of batch domain j.
WaitRecordsOf(j, c) ==
    {i \in DOMAIN out :
        /\ out[i].desc = "libvirtDomainVcpuWaitDesc"
        /\ out[i].labels = <<stats[j].name, FormatInt(c)>>}

\* C7 (as stated): once the mapper of a domain has passed its VCPU step with
\* GetVcpus succeeded or failed with a tolerated error, a wait record exists
\* for every VCPU whose batch stats carry a wait time.
C7_WaitAlwaysEmitted ==
    \A j \in DOMAIN stats : \A c \in VcpuNumbers(j) :
        (VcpuStepDone(j) /\ ~IsFatal(stats[j].vcpusErr) /\ stats[j].Vcpu[c + 1].WaitSet)
            => WaitRecordsOf(j, c) # {}

\* Device b of batch domain j is not skipped and the descriptor has no disk
\* with its name.
Unmatched(j, b) ==
    /\ ~IsSkippedDisk(stats[j].Block[b].Name)
    /\ \A k \in DOMAIN stats[j].desc.Disks : stats[j].desc.Disks[k].Target # stats[j].Block[b].Name

\* The loop over stat.Block of batch domain j has reached device b.
BlockReached(j, b) ==
    /\ VcpuStepDone(j)
    /\ j < di \/ (j = di /\ (b < bi \/ (b = bi /\ pc = "crashed")))

\* The records of descriptor x for device b of batch domain j.
BlockRecordsOf(j, b, x) ==
    {i \in DOMAIN out :
        /\ out[i].desc = x
        /\ out[i].labels[1] = stats[j].name
        /\ out[i].labels[2] = stats[j].Block[b].Name}

\* C8 (as stated): a block device without descriptor disk does not end the
\* process: its metadata record is emitted with empty attributes and its
\* counters are emitted.
C8_UnmatchedDeviceTolerated ==
    \A j \in DOMAIN stats : \A b \in DOMAIN stats[j].Block :
        (Unmatched(j, b) /\ BlockReached(j, b)) =>
            /\ pc # "crashed"
            /\ \E i \in BlockRecordsOf(j, b, "libvirtDomainMetaBlockDesc") :
                  \A k \in 4..9 : out[i].labels[k] = ""
            /\ BlockRecordsOf(j, b, "libvirtDomainBlockRdBytesDesc") # {}

\* GetBlockIoTune was called for device b of batch domain j.
TuneQueried(j, b) == Call("GetBlockIoTune", <<j, b>>) \in Range(calls)

\* C9 (as stated): when GetBlockIoTune of a device failed with an error that
\* is neither the unsupported nor the invalid operation, the scrape returns
\* that error and ends with up = 0.
C9_TuneErrorAbortsDomain ==
    ScrapeReturned =>
        \A j \in DOMAIN stats : \A b \in DOMAIN stats[j].Block :
            (TuneQueried(j, b)
                /\ stats[j].Block[b].tuneErr \notin {NilErr, ErrInvalid, ErrUnsupported}) =>
                /\ err = stats[j].Block[b].tuneErr
                /\ IsUp(LastRecord, 0)

\* The devices of the scrape whose GetBlockIoTune failed with error e.
TuneFailures(e) ==
    {p \in {<<j, b>> : j \in DOMAIN stats, b \in 1..MaxBlocks} :
        /\ p[2] \in DOMAIN stats[p[1]].Block
        /\ TuneQueried(p[1], p[2])
        /\ stats[p[1]].Block[p[2]].tuneErr = e}

\* C10 (as stated): when a scrape returns, a GetBlockIoTune failure with the
\* invalid or the unsupported operation has not become the scrape's error,
\* the scrape logged one event per invalid-operation failure, and after an
\* unsupported-operation failure blkiotune_unsupported is in the errors map.
C10_ToleratedTuneErrorsReported ==
    ScrapeReturned =>
        /\ err \notin {ErrInvalid, ErrUnsupported}
             \/ (TuneFailures(ErrInvalid) \cup TuneFailures(ErrUnsupported) = {})
        /\ Cardinality({i \in DOMAIN ScrapeLogs :
                            ScrapeLogs[i].err = "invalid operation GetBlockIoTune"})
             = Cardinality(TuneFailures(ErrInvalid))
        /\ (TuneFailures(ErrUnsupported) # {} => "blkiotune_unsupported" \in errorsMap)

\* The calls of WriteErrorOnce that are the first with their name, and the
\* position of such a call among them.
FirstCalls == {i \in DOMAIN calls : \A j \in 1..(i - 1) : calls[j].obj[1] # calls[i].obj[1]}

RankOf(i) == Cardinality({j \in FirstCalls : j <= i})

\* C11: after any sequence of calls of WriteErrorOnce, the log holds exactly
\* one event per distinct name called, namely the message of the first call
\* with that name, in the order of the first calls, and errorsMap holds
\* exactly the names called.
C11_OneEventPerName ==
    pc = "main" =>
        /\ errorsMap = {calls[i].obj[1] : i \in DOMAIN calls}
        /\ Len(log) = Cardinality(FirstCalls)
        /\ \A i \in FirstCalls : log[RankOf(i)].err = calls[i].obj[2]

\* C11 witness: a name was called three times, with different messages, and
\* the log holds a single event.
C11_Witness ==
    /\ pc = "main"
    /\ Len(calls) = 3
    /\ \A i \in DOMAIN calls : calls[i].obj[1] = "blkiotune_unsupported"
    /\ calls[1].obj[2] # calls[2].obj[2]
    /\ Len(log) = 1

\* CollectFromLibvirt has returned to Collect in the current scrape.
OrchestratorReturned == scrapes > 0 /\ pc \in {"Up", "idle"}

\* C12 (as stated): once the orchestrator has returned, no domain handle of
\* the batch and no pool handle of the listing is unreleased.
C12_HandlesReleased ==
    OrchestratorReturned => domHandles = {} /\ poolHandles = {}

\* The calls of libvirt.NewConnect made in the current scrape.
ConnectCalls == {i \in DOMAIN calls : calls[i].op = "NewConnect"}

\* C13: a scrape calls NewConnect at most once; a connection is open only
\* inside the orchestrator of a scrape whose NewConnect succeeded; it is
\* closed when the orchestrator has returned, hence when the up record is
\* emitted and between scrapes.
C13_ConnectionPerScrape ==
    /\ Cardinality(ConnectCalls) <= 1
    /\ (connOpen => ConnectCalls # {} /\ host.connectErr = NilErr)
    /\ (pc \in {"idle", "Up"} => ~connOpen)
    /\ ((\E i \in DOMAIN out : out[i].desc = "libvirtUpDesc") => ~connOpen)

\* C13 witness: a second scrape has returned with an error after its
\* connection had been opened, and the connection is closed.
C13_Witness ==
    /\ ScrapeReturned
    /\ scrapes = 2
    /\ host.connectErr = NilErr
    /\ Cardinality(ConnectCalls) = 1
    /\ err # NilErr
    /\ IsUp(LastRecord, 0)
    /\ ~connOpen

\* C14 (as stated): with concurrent calls of Collect, the listing a scrape
\* ranges over in GetDomainPid is the listing that scrape itself stored.
C14_ScrapesIsolated ==
    \A g \in Scrapers :
        pc[g] = "Up" => loc[g].ranged = loc[g].listed

\* The mapper of batch domain j was entered in the current scrape.
DomainEntered(j) == Call("GetName", <<j>>) \in Range(calls)

\* C15 (as stated): when a scrape returns in which the XML description of an
\* entered domain could not be decoded, the scrape has up = 1, every domain
\* of the batch was entered and the pools were listed.
C15_ParseErrorTolerated ==
    ScrapeReturned =>
        \A j \in DOMAIN stats :
            (DomainEntered(j) /\ stats[j].xmlMalformed
                /\ Call("GetXMLDesc", <<j>>) \in Range(calls)) =>
                /\ IsUp(LastRecord, 1)
                /\ \A k \in DOMAIN stats : DomainEntered(k)
                /\ Call("ListAllStoragePools", <<>>) \in Range(calls)

\* The estimate of VCPU c of batch domain j fails: GetVcpus succeeded, the
\* hypervisor gave no delay, a thread is resolved and its scheduler
\* statistics file is missing or does not hold three unsigned integers.
EstimateFails(j, c) ==
    /\ stats[j].vcpusErr = NilErr
    /\ ~stats[j].Vcpu[c + 1].DelaySet
    /\ c < Len(ThreadsOf(j))
    /\ ~Readable(j, c)

\* The domains of the batch whose mapper ran to its last record.
DomainCompleted(j) ==
    \E i \in DOMAIN out :
        /\ out[i].desc = "libvirtDomainMemoryStatUsedPercentDesc"
        /\ out[i].labels = <<stats[j].name>>

UnreadableEvents ==
    {i \in DOMAIN ScrapeLogs : ScrapeLogs[i].err = "unable to collect vcpu delay metric"}

\* C16: when the estimate of a VCPU fails, the file was read once, no delay
\* record is emitted for that VCPU and one error event is logged per failed
\* estimate; its wait record, the delay record of every other VCPU with an
\* available delay are emitted, and a scrape in which nothing else fails
\* completes every domain of the batch and ends with up = 1.
C16_UnreadableSchedStatSkipped ==
    /\ Cardinality(UnreadableEvents)
         = Cardinality({p \in {<<j, c>> : j \in DOMAIN stats, c \in 0..(MaxVcpus - 1)} :
                           /\ p[2] \in VcpuNumbers(p[1])
                           /\ VcpuStepDone(p[1])
                           /\ EstimateFails(p[1], p[2])})
    /\ \A j \in DOMAIN stats : \A c \in VcpuNumbers(j) :
          (VcpuStepDone(j) /\ EstimateFails(j, c)) =>
              /\ DelayRecordsOf(j, c) = {}
              /\ Cardinality(ReadsOf(j, c)) = 1
              /\ (stats[j].Vcpu[c + 1].WaitSet => WaitRecordsOf(j, c) # {})
              /\ \A c2 \in VcpuNumbers(j) \ {c} :
                    DelayAvailable(j, c2) => Cardinality(DelayRecordsOf(j, c2)) = 1
              /\ (ScrapeReturned /\ ~HostFails(host) =>
                    /\ IsUp(LastRecord, 1)
                    /\ \A k \in DOMAIN stats : DomainCompleted(k))

\* C16 witness: a scrape of two domains returned with up = 1; the estimate of
\* VCPU 0 of the first domain failed and was logged, VCPU 1 of that domain
\* has its estimated delay, and the second domain was completed.
C16_Witness ==
    /\ ScrapeReturned
    /\ Len(stats) = 2
    /\ Len(stats[1].Vcpu) >= 2
    /\ EstimateFails(1, 0)
    /\ DelayRecordsOf(1, 0) = {}
    /\ ~stats[1].Vcpu[2].DelaySet /\ Cardinality(DelayRecordsOf(1, 1)) = 1
    /\ UnreadableEvents # {}
    /\ DomainCompleted(2)
    /\ IsUp(LastRecord, 1)

\* Every descriptor of a block-device record.
AllBlockDescs ==
    {"libvirtDomainMetaBlockDesc"}
    \cup {BlockCounterDesc[f] : f \in Range(BlockCounterFields)}
    \cup {BlockIoTuneDesc(f) : f \in Range(BlockIoTuneFields)}

\* C17: a device named exactly hda or hdc has no block record of any
\* descriptor and no GetBlockIoTune call, even when the descriptor declares
\* a disk of that name; a device of any other name with a descriptor disk,
\* once the block loop has passed it, has its metadata record and its
\* GetBlockIoTune call.
C17_SkippedDisks ==
    \A j \in DOMAIN stats : \A b \in DOMAIN stats[j].Block :
        /\ stats[j].Block[b].Name \in {"hda", "hdc"} =>
              /\ \A x \in AllBlockDescs : BlockRecordsOf(j, b, x) = {}
              /\ ~TuneQueried(j, b)
        /\ (stats[j].Block[b].Name \notin {"hda", "hdc"} /\ ~Unmatched(j, b)
                /\ BlockReached(j, b)) =>
              /\ BlockRecordsOf(j, b, "libvirtDomainMetaBlockDesc") # {}
              /\ TuneQueried(j, b)

\* C17 witness: a domain with the devices hda and hda1, both declared in the
\* descriptor and both with counters in the batch stats, was completed: hda
\* has no record and no query, hda1 has its records and its query.
C17_Witness ==
    \E j \in DOMAIN stats :
        /\ DomainCompleted(j)
        /\ Len(stats[j].Block) = 2
        /\ stats[j].Block[1].Name = "hda" /\ stats[j].Block[2].Name = "hda1"
        /\ "RdBytes" \in DOMAIN stats[j].Block[1].stats
        /\ ~Unmatched(j, 1)
        /\ ~TuneQueried(j, 1)
        /\ TuneQueried(j, 2)
        /\ BlockRecordsOf(j, 2, "libvirtDomainBlockRdBytesDesc") # {}

\* The records of counter field f that carry exactly the labels (name of
\* batch domain j, device name n).
CounterRecordsOf(j, n, f) ==
    {i \in DOMAIN out :
        out[i].desc = BlockCounterDesc[f] /\ out[i].labels = <<stats[j].name, n>>}

\* The devices named n of batch domain j that the block loop processed as far
\* as the query of the limits.
ProcessedDevices(j, n) ==
    {b \in DOMAIN stats[j].Block : stats[j].Block[b].Name = n /\ TuneQueried(j, b)}

\* The value of a counter record in the unit of the batch stats.
CounterRaw(f, v) == IF f \in BlockTimeFields THEN NsOf(v) ELSE v.num

\* C18: for every domain, device name and counter field, the scrape holds one
\* record of the field's descriptor with labels (domain, device) per processed
\* device of that name whose batch stats carry the field, and none when the
\* field is absent, whatever the other fields are; the record's value is the
\* field's.
C18_BlockCounterPresence ==
    \A j \in DOMAIN stats : \A b \in DOMAIN stats[j].Block :
        \A f \in Range(BlockCounterFields) :
            LET n == stats[j].Block[b].Name
            IN  /\ Cardinality(CounterRecordsOf(j, n, f))
                     = Cardinality({d \in ProcessedDevices(j, n) :
                                       f \in DOMAIN stats[j].Block[d].stats})
                /\ \A i \in CounterRecordsOf(j, n, f) :
                      \E d \in ProcessedDevices(j, n) :
                          /\ f \in DOMAIN stats[j].Block[d].stats
                          /\ CounterRaw(f, out[i].value) = stats[j].Block[d].stats[f]

\* C18 witness: a processed device whose batch stats carry every counter but
\* the flush time has one record for each of the ten present fields and none
\* for the flush time.
C18_Witness ==
    \E j \in DOMAIN stats :
        /\ Len(stats[j].Block) = 1
        /\ TuneQueried(j, 1)
        /\ DOMAIN stats[j].Block[1].stats = Range(BlockCounterFields) \ {"FlTimes"}
        /\ CounterRecordsOf(j, "vda", "FlTimes") = {}
        /\ \A f \in Range(BlockCounterFields) \ {"FlTimes"} :
              Cardinality(CounterRecordsOf(j, "vda", f)) = 1

\* The descriptors of the nine memory records.
MemoryDescs ==
    {"libvirtDomainMemoryStatMajorFaultTotalDesc", "libvirtDomainMemoryStatMinorFaultTotalDesc",
     "libvirtDomainMemoryStatUnusedBytesDesc", "libvirtDomainMemoryStatAvailableBytesDesc",
     "libvirtDomainMemoryStatActualBaloonBytesDesc", "libvirtDomainMemoryStatRssBytesDesc",
     "libvirtDomainMemoryStatUsableBytesDesc", "libvirtDomainMemoryStatDiskCachesBytesDesc",
     "libvirtDomainMemoryStatUsedPercentDesc"}

\* The records of descriptor x of batch domain j.
MemoryRecordsOf(j, x) ==
    {i \in DOMAIN out : out[i].desc = x /\ out[i].labels = <<stats[j].name>>}

\* The mapper of batch domain j has made its MemoryStats call.
MemoryStepDone(j) == Call("MemoryStats", <<j>>) \in Range(calls)

\* C19: a domain has each of the nine memory records exactly once when its
\* mapper has passed the memory step and none before; when MemoryStats failed
\* all nine values are 0, and a scrape in which nothing else fails completes
\* every domain and ends with up = 1.
C19_MemoryRecordsAlwaysEmitted ==
    \A j \in DOMAIN stats :
        /\ \A x \in MemoryDescs :
              Cardinality(MemoryRecordsOf(j, x)) = IF MemoryStepDone(j) THEN 1 ELSE 0
        /\ (MemoryStepDone(j) /\ stats[j].memErr # NilErr) =>
              /\ \A x \in MemoryDescs : \A i \in MemoryRecordsOf(j, x) : out[i].value.num = 0
              /\ (ScrapeReturned /\ ~HostFails(host) =>
                    /\ IsUp(LastRecord, 1)
                    /\ \A k \in DOMAIN stats : MemoryStepDone(k))

\* C19 witness: a scrape of two domains returned with up = 1; MemoryStats of
\* the first domain failed, its nine records are 0, and the second domain has
\* a non-zero available memory record.
C19_Witness ==
    /\ ScrapeReturned
    /\ Len(stats) = 2
    /\ stats[1].memErr # NilErr
    /\ \A x \in MemoryDescs :
          \E i \in MemoryRecordsOf(1, x) : out[i].value = [num |-> 0, den |-> 1]
    /\ \E i \in MemoryRecordsOf(2, "libvirtDomainMemoryStatAvailableBytesDesc") :
          out[i].value.num > 0
    /\ IsUp(LastRecord, 1)

\* The value memoryStatCollect keeps for a tag: that of the last entry with
\* the tag, 0 without such an entry.
LastVal(memorystat, tag) ==
    LET S == {i \in DOMAIN memorystat : memorystat[i].Tag = tag}
    IN  IF S = {} THEN 0
        ELSE memorystat[CHOOSE i \in S : \A k \in S : k <= i].Val

\* C20: with a the available and u the usable memory of a domain whose
\* MemoryStats succeeded, the used-percent record p satisfies
\* p * a = (a - u) * 100 when both are non-zero, 0 <= p <= 100 when a > 0 and
\* u <= a, and p = 0 when u = 0 or a = 0.
C20_UsedPercent ==
    \A j \in DOMAIN stats :
        \A i \in MemoryRecordsOf(j, "libvirtDomainMemoryStatUsedPercentDesc") :
            stats[j].memErr = NilErr =>
                LET a == LastVal(stats[j].mem, 5)
                    u == LastVal(stats[j].mem, 8)
                    p == out[i].value
                IN  /\ p.den > 0
                    /\ (a # 0 /\ u # 0 => p.num * a = (a - u) * 100 * p.den)
                    /\ (a > 0 /\ u <= a => p.num >= 0 /\ p.num <= 100 * p.den)
                    /\ (u = 0 \/ a = 0 => p.num = 0)

\* C20 witness: available 3000 and usable 2000 give the record 100/3, and the
\* record exists.
C20_Witness ==
    \E j \in DOMAIN stats :
        /\ LastVal(stats[j].mem, 5) = 3000
        /\ LastVal(stats[j].mem, 8) = 2000
        /\ \E i \in MemoryRecordsOf(j, "libvirtDomainMemoryStatUsedPercentDesc") :
              out[i].value = [num |-> 100, den |-> 3]

\* The text "major.minor.patch" of the triple encoded in n as
\* major * 1000000 + minor * 1000 + patch, with minor and patch below 1000.
VersionText(n) ==
    FormatInt(n \div 1000000) \o <<".">> \o FormatInt((n \div 1000) % 1000)
    \o <<".">> \o FormatInt(n % 1000)

\* C21 (as stated): the three labels of the versions record are the texts
\* "major.minor.patch" of the triples encoded in the raw version numbers of
\* the hypervisor, the daemon and the library.
C21_VersionRoundTrip ==
    \A i \in DOMAIN out :
        out[i].desc = "libvirtVersionsInfoDesc" =>
            out[i].labels = <<VersionText(host.hypervisorVersionNum),
                              VersionText(host.libvirtdVersionNum),
                              VersionText(host.libraryVersionNum)>>

\* The first interface of the descriptor of batch domain j with target n; an
\* interface without bridge and virtual port when there is none.
DescInterfaceOf(j, n) ==
    LET S == {k \in DOMAIN stats[j].desc.Interfaces : stats[j].desc.Interfaces[k].Target = n}
    IN  IF S = {} THEN DescInterface(n, "", "")
        ELSE stats[j].desc.Interfaces[CHOOSE k \in S : \A m \in S : k <= m]

\* The interface metadata records of batch domain j for the interface name n.
NetMetaRecordsOf(j, n) ==
    {i \in DOMAIN out :
        /\ out[i].desc = "libvirtDomainMetaInterfacesDesc"
        /\ out[i].labels[1] = stats[j].name
        /\ out[i].labels[3] = n}

NetCounterRecordsOf(j, n, f) ==
    {i \in DOMAIN out :
        out[i].desc = NetCounterDesc[f] /\ out[i].labels = <<stats[j].name, n>>}

\* The mapper of batch domain j has passed its loop over stat.Net.
NetStepDone(j) == MemoryStepDone(j) \/ (j = di /\ pc = "MemoryStats")

\* The interfaces named n in the batch stats of domain j.
InterfacesNamed(j, n) == {k \in DOMAIN stats[j].Net : stats[j].Net[k].Name = n}

\* C22: once the mapper of a domain has passed its interface loop (and not
\* before), an interface has a metadata record, labelled with the bridge and
\* the virtual interface of the first descriptor interface of its name, if
\* and only if one of the two is non-empty, none when the descriptor has no
\* such interface; and it has one record per counter present in the batch
\* stats, with the counter's value, and none for an absent counter.
C22_InterfaceRecords ==
    \A j \in DOMAIN stats : \A k \in DOMAIN stats[j].Net :
        LET n == stats[j].Net[k].Name
            d == DescInterfaceOf(j, n)
            known == d.Bridge # "" \/ d.InterfaceID # ""
        IN  /\ Cardinality(NetMetaRecordsOf(j, n))
                 = IF NetStepDone(j) /\ known THEN Cardinality(InterfacesNamed(j, n)) ELSE 0
            /\ \A i \in NetMetaRecordsOf(j, n) :
                  out[i].labels = <<stats[j].name, d.Bridge, n, d.InterfaceID>>
            /\ \A f \in Range(NetCounterFields) :
                  /\ Cardinality(NetCounterRecordsOf(j, n, f))
                       = IF NetStepDone(j)
                         THEN Cardinality({m \in InterfacesNamed(j, n) :
                                              f \in DOMAIN stats[j].Net[m].stats})
                         ELSE 0
                  /\ \A i \in NetCounterRecordsOf(j, n, f) :
                        \E m \in InterfacesNamed(j, n) :
                            /\ f \in DOMAIN stats[j].Net[m].stats
                            /\ out[i].value = [num |-> stats[j].Net[m].stats[f], den |-> 1]

\* C22 witness: a completed domain with two interfaces: tap2, declared
\* without bridge and virtual port, has its packet counter and no metadata
\* record; tap3 has its metadata record and its error counter.
C22_Witness ==
    \E j \in DOMAIN stats :
        /\ MemoryStepDone(j)
        /\ Len(stats[j].Net) = 2
        /\ stats[j].Net[1].Name = "tap2" /\ stats[j].Net[2].Name = "tap3"
        /\ NetMetaRecordsOf(j, "tap2") = {}
        /\ Cardinality(NetCounterRecordsOf(j, "tap2", "RxPkts")) = 1
        /\ Cardinality(NetMetaRecordsOf(j, "tap3")) = 1
        /\ Cardinality(NetCounterRecordsOf(j, "tap3", "TxErrs")) = 1
        /\ NetCounterRecordsOf(j, "tap3", "RxPkts") = {}

\* The mapper of pool k of the listing has run.
PoolMapped(k) == Call("CollectStoragePool", <<k>>) \in Range(calls)

\* The records of descriptor x of pool k of the listing.
PoolRecordsOf(k, x) ==
    {i \in DOMAIN out : out[i].desc = x /\ out[i].labels = <<pools[k].name>>}

\* C23: a pool of the listing whose mapper ran and whose refresh, name and
\* info succeeded has exactly one capacity, one allocation and one available
\* gauge, labelled with its name and valued with its info; a pool whose
\* mapper has not run or failed has no gauge, and after a failing pool no
\* later pool of the listing is mapped.
C23_PoolGauges ==
    \A k \in DOMAIN pools :
        /\ \A x \in PoolDescs :
              Cardinality(PoolRecordsOf(k, x))
                = IF PoolMapped(k) /\ ~PoolFails(pools[k]) THEN 1 ELSE 0
        /\ \A i \in PoolRecordsOf(k, "libvirtPoolInfoCapacity") :
              out[i].value = [num |-> pools[k].Capacity, den |-> 1]
        /\ \A i \in PoolRecordsOf(k, "libvirtPoolInfoAllocation") :
              out[i].value = [num |-> pools[k].Allocation, den |-> 1]
        /\ \A i \in PoolRecordsOf(k, "libvirtPoolInfoAvailable") :
              out[i].value = [num |-> pools[k].Available, den |-> 1]
        /\ (PoolMapped(k) /\ PoolFails(pools[k])) =>
              \A m \in DOMAIN pools : m > k => ~PoolMapped(m)

\* C23 witness: a returned scrape whose first pool has the gauges 100, 40 and
\* 60 and whose second pool failed and has none.
C23_Witness ==
    /\ ScrapeReturned
    /\ Len(pools) = 2
    /\ PoolMapped(1) /\ PoolMapped(2)
    /\ PoolFails(pools[2])
    /\ \E a, b, c \in DOMAIN out :
          /\ a < b /\ b < c
          /\ out[a] = Metric("libvirtPoolInfoCapacity", Float(100), <<pools[1].name>>)
          /\ out[b] = Metric("libvirtPoolInfoAllocation", Float(40), <<pools[1].name>>)
          /\ out[c] = Metric("libvirtPoolInfoAvailable", Float(60), <<pools[1].name>>)
    /\ \A x \in PoolDescs : PoolRecordsOf(2, x) = {}

\* C24: a scrape that follows another scrape of the same host and the same
\* proc filesystem has, when it returns, sent the same records in the same
\* order as the scrape before: same descriptors, same label values, same
\* values.
C24_ScrapesIdempotent ==
    (ScrapeReturned /\ scrapes >= 2) => out = prev

\* C24 witness: a second scrape returned with the records of the first, among
\* them an estimated delay read from the proc filesystem and the up record.
C24_Witness ==
    /\ ScrapeReturned /\ scrapes = 2
    /\ out = prev
    /\ \E i \in DOMAIN out : out[i].desc = "libvirtDomainVcpuDelayDesc"
    /\ schedReads # <<>>
    /\ IsUp(LastRecord, 1)

\* The positions of the listing whose process has a readable, non-empty
\* command line of which name is a contiguous part.
MatchingProcesses(name) ==
    {i \in DOMAIN processes :
        /\ processes[i] \in DOMAIN host.cmdline
        /\ host.cmdline[processes[i]] # <<>>
        /\ \E k \in 0..Len(host.cmdline[processes[i]]) :
              /\ k + Len(name) <= Len(host.cmdline[processes[i]])
              /\ SubSeq(host.cmdline[processes[i]], k + 1, k + Len(name)) = name}

\* C25: when the mapper of a domain has resolved the domain's process, the
\* process id it holds is the one at the first position of the listing whose
\* command line is readable, non-empty and contains the domain's name, and 0
\* when the listing has no such position.
C25_FirstMatchingProcess ==
    pc = "GetVcpus" =>
        LET M == MatchingProcesses(stats[di].name)
        IN  /\ M = {} => loc.domainPid = 0
            /\ M # {} => \E i \in M : /\ loc.domainPid = processes[i]
                                      /\ \A m \in M : i <= m

\* C25 witness: the listing holds, in this order, a process with another
\* command line, one whose command line cannot be read and two whose command
\* lines contain the domain's name; the first of the two is resolved.
C25_Witness ==
    /\ pc = "GetVcpus"
    /\ Len(processes) = 4
    /\ 1 \notin MatchingProcesses(stats[di].name)
    /\ processes[2] \notin DOMAIN host.cmdline
    /\ {3, 4} \subseteq MatchingProcesses(stats[di].name)
    /\ loc.domainPid = processes[3]

\* The mapper of batch domain j has made its monitor command.
MonitorCalled(j) == Call("QemuMonitorCommand", <<j>>) \in Range(calls)

\* C26: once the monitor command of a domain was made: if it failed as an
\* invalid operation the mapper goes on to the UUID, no scheduler statistics
\* are read for the domain, its only delay records are the hypervisor's, and
\* a scrape in which nothing else fails completes this and every other domain
\* and ends with up = 1; if it failed otherwise, the mapper returns that
\* error without a record of the domain and without a further call, no later
\* domain is entered, the pools are not listed and the scrape ends with
\* up = 0.
C26_InvalidOperationTolerated ==
    \A j \in DOMAIN stats :
        (MonitorCalled(j) /\ stats[j].monitorErr # NilErr) =>
            IF stats[j].monitorErr = ErrInvalid
            THEN /\ Call("GetUUIDString", <<j>>) \in Range(calls)
                 /\ \A c \in VcpuNumbers(j) :
                       /\ ReadsOf(j, c) = {}
                       /\ DelayRecordsOf(j, c) # {} => stats[j].Vcpu[c + 1].DelaySet
                 /\ (ScrapeReturned /\ ~HostFails(host)) =>
                       /\ \A m \in DOMAIN stats : DomainCompleted(m)
                       /\ IsUp(LastRecord, 1)
            ELSE /\ err = stats[j].monitorErr
                 /\ Call("GetUUIDString", <<j>>) \notin Range(calls)
                 /\ RecordsOfDomain(j) = {}
                 /\ \A m \in DOMAIN stats : m > j => ~DomainEntered(m)
                 /\ Call("ListAllStoragePools", <<>>) \notin Range(calls)
                 /\ ScrapeReturned => IsUp(LastRecord, 0)

\* C26 witness: a returned scrape with up = 1 in which the monitor command of
\* the first domain failed as an invalid operation: the domain is completed,
\* its first VCPU has the hypervisor's delay, its second VCPU, for which the
\* monitor would have named a readable thread, has none, and the second
\* domain is completed.
C26_Witness ==
    /\ ScrapeReturned
    /\ IsUp(LastRecord, 1)
    /\ Len(stats) = 2
    /\ stats[1].monitorErr = ErrInvalid
    /\ Len(stats[1].Vcpu) >= 2
    /\ stats[1].Vcpu[1].DelaySet /\ ~stats[1].Vcpu[2].DelaySet
    /\ Len(stats[1].tids) >= 2
    /\ <<ResolvedPid(1), stats[1].tids[2]>> \in DOMAIN host.schedstat
    /\ DelayRecordsOf(1, 0) # {} /\ DelayRecordsOf(1, 1) = {}
    /\ DomainCompleted(1) /\ DomainCompleted(2)

UpRecords == {i \in DOMAIN out : out[i].desc = "libvirtUpDesc"}

\* C27 (as stated): a scrape that started does not end the process before
\* its up record; a scrape that returned has sent exactly one up record, as
\* its last record, and a scrape still running has sent none.
C27_EveryScrapeEndsWithUp ==
    /\ pc \notin {"crashed", "exited"}
    /\ ScrapeReturned => (Cardinality(UpRecords) = 1 /\ UpRecords = {Len(out)})
    /\ ~ScrapeReturned => UpRecords = {}

\* C28 (as stated): every record of a scrape uses a descriptor that Describe
\* sends.
C28_DescribedDescriptors ==
    \A i \in DOMAIN out : out[i].desc \in Range(Describe)

\* The six descriptors of the records CollectDomain sends after GetInfo.
DomainInfoDescs ==
    {"libvirtDomainInfoMetaDesc", "libvirtDomainInfoMaxMemBytesDesc",
     "libvirtDomainInfoMemoryUsageBytesDesc", "libvirtDomainInfoNrVirtCPUDesc",
     "libvirtDomainInfoCPUTimeDesc", "libvirtDomainInfoVirDomainState"}

InfoRecordsOf(j) == {i \in RecordsOfDomain(j) : out[i].desc \in DomainInfoDescs}

\* The records a failed scrape sent before its error are in its output:
\* the versions record once the batch stats were asked for, the info records
\* of every domain that reached GetVcpus, the metadata record of every block
\* device that reached GetBlockIoTune and the last record of every domain
\* that reached the memory step.
EarlierRecordsKept ==
    /\ Call("GetAllDomainStats", <<>>) \in Range(calls) => out[1] = VersionsMetric(host)
    /\ \A j \in DOMAIN stats :
          /\ VcpuStepDone(j) => Cardinality(InfoRecordsOf(j)) = 6
          /\ \A b \in DOMAIN stats[j].Block :
                TuneQueried(j, b) => BlockRecordsOf(j, b, "libvirtDomainMetaBlockDesc") # {}
          /\ MemoryStepDone(j) => DomainCompleted(j)

\* C29: within a scrape every step leaves the records already sent in place
\* and only appends to them, and a scrape that returned with an error holds
\* the records sent before the error, followed by up = 0 as the last record.
C29_NoRollback ==
    /\ [][pc # "idle" => /\ Len(out') >= Len(out)
                         /\ SubSeq(out', 1, Len(out)) = out]_vars
    /\ []((ScrapeReturned /\ err # NilErr) =>
            /\ IsUp(LastRecord, 0)
            /\ UpRecords = {Len(out)}
            /\ EarlierRecordsKept)

\* C29 witness: a returned scrape of two domains that failed at the
\* GetBlockIoTune of the second domain's device: its output starts with the
\* versions record, holds every record of the first domain, the info, VCPU
\* and block metadata records of the second, no memory record of the
\* second, and ends with up = 0.
C29_Witness ==
    /\ ScrapeReturned /\ err # NilErr
    /\ Len(stats) = 2
    /\ TuneQueried(2, 1) /\ err = stats[2].Block[1].tuneErr
    /\ out[1] = VersionsMetric(host)
    /\ DomainCompleted(1)
    /\ Cardinality(InfoRecordsOf(2)) = 6
    /\ \E i \in RecordsOfDomain(2) : out[i].desc = "libvirtDomainVcpuStateDesc"
    /\ BlockRecordsOf(2, 1, "libvirtDomainMetaBlockDesc") # {}
    /\ ~DomainCompleted(2)
    /\ IsUp(LastRecord, 0)

\* One of the steps before the first record of a domain fails with an error
\* the mapper returns: name, thread resolution (unless an invalid
\* operation), UUID, descriptor, its decoding, or info.
IdentityFails(d) ==
    \/ d.nameErr # NilErr
    \/ d.monitorErr \notin {NilErr, ErrInvalid}
    \/ d.uuidErr # NilErr
    \/ d.xmlErr # NilErr
    \/ d.xmlMalformed
    \/ d.infoErr # NilErr

\* C30: a domain has a record in the output only if its mapper made all five
\* calls (name, monitor command, UUID, descriptor, info) and none of these
\* steps failed with a returned error; a domain whose mapper was entered
\* and for which one of them fails has no record, its error is the error of
\* the scrape and its mapper makes no later call.
C30_NoRecordBeforeIdentity ==
    \A j \in DOMAIN stats :
        /\ RecordsOfDomain(j) # {} =>
              /\ \A k \in DOMAIN DomainInfoCalls :
                    Call(DomainInfoCalls[k], <<j>>) \in Range(calls)
              /\ ~IdentityFails(stats[j])
        /\ (DomainEntered(j) /\ IdentityFails(stats[j])) =>
              /\ RecordsOfDomain(j) = {}
              /\ err # NilErr
              /\ \A x \in {"GetVcpus", "MemoryStats"} : Call(x, <<j>>) \notin Range(calls)
              /\ \A b \in DOMAIN stats[j].Block : ~TuneQueried(j, b)

\* C30 witness: a returned scrape of two domains in which GetInfo of the
\* second failed after its name, threads, UUID and descriptor were obtained:
\* the first domain is completed, the second has no record, up = 0.
C30_Witness ==
    /\ ScrapeReturned
    /\ Len(stats) = 2
    /\ stats[2].infoErr # NilErr
    /\ Call("GetInfo", <<2>>) \in Range(calls)
    /\ err = stats[2].infoErr
    /\ DomainCompleted(1)
    /\ RecordsOfDomain(2) = {}
    /\ IsUp(LastRecord, 0)

====
